---------------------------- MODULE Spec2Model ----------------------------
(***************************************************************************)
(* The explanation service of backend/app.py: topic normalisation, request *)
(* validation, the explanations table, provider selection, response       *)
(* validation and the /explain and /delete-topic handlers.                 *)
(*                                                                         *)
(* A Python str is modelled as a sequence of one-character strings, so     *)
(* that lower(), strip(), split(), startswith(), re.sub and the `in`       *)
(* tests are computed character by character as the code computes them.    *)
(***************************************************************************)
EXTENDS Integers, Sequences, FiniteSets, Bags, TLC

----------------------------------------------------------------------------
(* Characters and the str methods the code uses *)

UpperChars == <<"A","B","C","D","E","F","G","H","I","J","K","L","M","N","O","P","Q","R","S","T","U","V","W","X","Y","Z">>
LowerChars == <<"a","b","c","d","e","f","g","h","i","j","k","l","m","n","o","p","q","r","s","t","u","v","w","x","y","z">>
DigitChars == {"0","1","2","3","4","5","6","7","8","9"}

Range(f) == {f[i] : i \in DOMAIN f}

\* str.isspace / the regex class \s, on the characters the model uses
IsSpace(c) == c \in {" ", "\t", "\n"}

\* the regex class \w
IsWord(c) == c \in Range(UpperChars) \cup Range(LowerChars) \cup DigitChars \cup {"_"}

LowerChar(c) ==
    IF \E i \in DOMAIN UpperChars : UpperChars[i] = c
    THEN LowerChars[CHOOSE i \in DOMAIN UpperChars : UpperChars[i] = c]
    ELSE c

\* str.lower()
lower(s) == [i \in 1..Len(s) |-> LowerChar(s[i])]

RECURSIVE lstrip(_)
lstrip(s) == IF s # <<>> /\ IsSpace(Head(s)) THEN lstrip(Tail(s)) ELSE s

RECURSIVE rstrip(_)
rstrip(s) == IF s # <<>> /\ IsSpace(s[Len(s)]) THEN rstrip(SubSeq(s, 1, Len(s) - 1)) ELSE s

\* str.strip()
strip(s) == rstrip(lstrip(s))

\* str.startswith / str.endswith
startswith(s, p) == Len(s) >= Len(p) /\ SubSeq(s, 1, Len(p)) = p
endswith(s, p) == Len(s) >= Len(p) /\ SubSeq(s, Len(s) - Len(p) + 1, Len(s)) = p

\* `sub in s` for two str
contains(s, sub) ==
    \E i \in 1..(Len(s) - Len(sub) + 1) : SubSeq(s, i, i + Len(sub) - 1) = sub

\* length of the leading run of non-space characters
WordLen(s) ==
    IF \E i \in DOMAIN s : IsSpace(s[i])
    THEN (CHOOSE i \in DOMAIN s : IsSpace(s[i]) /\ \A j \in 1..(i - 1) : ~IsSpace(s[j])) - 1
    ELSE Len(s)

\* str.split() with no argument: the maximal runs of non-space characters
RECURSIVE split(_)
split(s) ==
    LET u == lstrip(s)
        n == WordLen(u)
    IN  IF u = <<>> THEN <<>>
        ELSE <<SubSeq(u, 1, n)>> \o split(SubSeq(u, n + 1, Len(u)))

\* ' '.join(words)
RECURSIVE join(_)
join(words) ==
    IF words = <<>> THEN <<>>
    ELSE IF Len(words) = 1 THEN words[1]
    ELSE words[1] \o <<" ">> \o join(Tail(words))

\* re.sub(r'[^\w\s]', '', s)
re_sub_nonword(s) == SelectSeq(s, LAMBDA c : IsWord(c) \/ IsSpace(c))

----------------------------------------------------------------------------
(* The curated tables of the code, as written there *)

\* normalize_topic: prefixes, in list order (app.py:256-260)
prefixes_to_remove == <<
    <<"e","x","p","l","a","i","n">>,  \* explain
    <<"t","e","l","l"," ","m","e">>,  \* tell me
    <<"w","h","a","t"," ","i","s">>,  \* what is
    <<"w","h","a","t"," ","a","r","e">>,  \* what are
    <<"h","o","w"," ","d","o","e","s">>,  \* how does
    <<"h","o","w"," ","d","o">>,  \* how do
    <<"d","e","s","c","r","i","b","e">>,  \* describe
    <<"d","e","f","i","n","e">>,  \* define
    <<"g","i","v","e"," ","m","e">>,  \* give me
    <<"s","h","o","w"," ","m","e">>,  \* show me
    <<"h","e","l","p"," ","m","e"," ","u","n","d","e","r","s","t","a","n","d">>,  \* help me understand
    <<"c","a","n"," ","y","o","u"," ","e","x","p","l","a","i","n">>,  \* can you explain
    <<"p","l","e","a","s","e"," ","e","x","p","l","a","i","n">>,  \* please explain
    <<"i"," ","w","a","n","t"," ","t","o"," ","k","n","o","w">>,  \* i want to know
    <<"h","e","l","p"," ","w","i","t","h">>  \* help with
  >>

\* validate_educational_concept: always-allowed phrases (app.py:112-141)
educational_concepts == {
    <<"m","a","c","h","i","n","e"," ","l","e","a","r","n","i","n","g">>,  \* machine learning
    <<"a","r","t","i","f","i","c","i","a","l"," ","i","n","t","e","l","l","i","g","e","n","c","e">>,  \* artificial intelligence
    <<"d","e","e","p"," ","l","e","a","r","n","i","n","g">>,  \* deep learning
    <<"n","e","u","r","a","l"," ","n","e","t","w","o","r","k","s">>,  \* neural networks
    <<"c","o","m","p","u","t","e","r"," ","v","i","s","i","o","n">>,  \* computer vision
    <<"n","a","t","u","r","a","l"," ","l","a","n","g","u","a","g","e"," ","p","r","o","c","e","s","s","i","n","g">>,  \* natural language processing
    <<"d","a","t","a"," ","s","c","i","e","n","c","e">>,  \* data science
    <<"b","i","g"," ","d","a","t","a">>,  \* big data
    <<"c","l","o","u","d"," ","c","o","m","p","u","t","i","n","g">>,  \* cloud computing
    <<"b","l","o","c","k","c","h","a","i","n">>,  \* blockchain
    <<"v","i","r","t","u","a","l"," ","r","e","a","l","i","t","y">>,  \* virtual reality
    <<"a","u","g","m","e","n","t","e","d"," ","r","e","a","l","i","t","y">>,  \* augmented reality
    <<"i","n","t","e","r","n","e","t"," ","o","f"," ","t","h","i","n","g","s">>,  \* internet of things
    <<"q","u","a","n","t","u","m"," ","c","o","m","p","u","t","i","n","g">>,  \* quantum computing
    <<"c","y","b","e","r"," ","s","e","c","u","r","i","t","y">>,  \* cyber security
    <<"s","o","f","t","w","a","r","e"," ","e","n","g","i","n","e","e","r","i","n","g">>,  \* software engineering
    <<"w","e","b"," ","d","e","v","e","l","o","p","m","e","n","t">>,  \* web development
    <<"m","o","b","i","l","e"," ","d","e","v","e","l","o","p","m","e","n","t">>,  \* mobile development
    <<"d","a","t","a","b","a","s","e"," ","m","a","n","a","g","e","m","e","n","t">>,  \* database management
    <<"u","s","e","r"," ","e","x","p","e","r","i","e","n","c","e">>,  \* user experience
    <<"u","s","e","r"," ","i","n","t","e","r","f","a","c","e">>,  \* user interface
    <<"i","n","f","o","r","m","a","t","i","o","n"," ","s","e","c","u","r","i","t","y">>,  \* information security
    <<"n","e","t","w","o","r","k"," ","s","e","c","u","r","i","t","y">>,  \* network security
    <<"q","u","a","n","t","u","m"," ","p","h","y","s","i","c","s">>,  \* quantum physics
    <<"o","r","g","a","n","i","c"," ","c","h","e","m","i","s","t","r","y">>,  \* organic chemistry
    <<"m","o","l","e","c","u","l","a","r"," ","b","i","o","l","o","g","y">>,  \* molecular biology
    <<"c","e","l","l"," ","b","i","o","l","o","g","y">>,  \* cell biology
    <<"g","e","n","e","t","i","c"," ","e","n","g","i","n","e","e","r","i","n","g">>,  \* genetic engineering
    <<"c","l","i","m","a","t","e"," ","c","h","a","n","g","e">>,  \* climate change
    <<"r","e","n","e","w","a","b","l","e"," ","e","n","e","r","g","y">>,  \* renewable energy
    <<"n","u","c","l","e","a","r"," ","p","h","y","s","i","c","s">>,  \* nuclear physics
    <<"a","s","t","r","o","p","h","y","s","i","c","s">>,  \* astrophysics
    <<"m","a","r","i","n","e"," ","b","i","o","l","o","g","y">>,  \* marine biology
    <<"e","n","v","i","r","o","n","m","e","n","t","a","l"," ","s","c","i","e","n","c","e">>,  \* environmental science
    <<"f","o","r","e","n","s","i","c"," ","s","c","i","e","n","c","e">>,  \* forensic science
    <<"m","a","t","e","r","i","a","l","s"," ","s","c","i","e","n","c","e">>,  \* materials science
    <<"b","i","o","m","e","d","i","c","a","l"," ","e","n","g","i","n","e","e","r","i","n","g">>,  \* biomedical engineering
    <<"c","h","e","m","i","c","a","l"," ","e","n","g","i","n","e","e","r","i","n","g">>,  \* chemical engineering
    <<"e","l","e","c","t","r","i","c","a","l"," ","e","n","g","i","n","e","e","r","i","n","g">>,  \* electrical engineering
    <<"m","e","c","h","a","n","i","c","a","l"," ","e","n","g","i","n","e","e","r","i","n","g">>,  \* mechanical engineering
    <<"c","i","v","i","l"," ","e","n","g","i","n","e","e","r","i","n","g">>,  \* civil engineering
    <<"l","i","n","e","a","r"," ","a","l","g","e","b","r","a">>,  \* linear algebra
    <<"d","i","f","f","e","r","e","n","t","i","a","l"," ","e","q","u","a","t","i","o","n","s">>,  \* differential equations
    <<"c","o","m","p","l","e","x"," ","a","n","a","l","y","s","i","s">>,  \* complex analysis
    <<"n","u","m","b","e","r"," ","t","h","e","o","r","y">>,  \* number theory
    <<"g","r","a","p","h"," ","t","h","e","o","r","y">>,  \* graph theory
    <<"g","a","m","e"," ","t","h","e","o","r","y">>,  \* game theory
    <<"p","r","o","b","a","b","i","l","i","t","y"," ","t","h","e","o","r","y">>,  \* probability theory
    <<"s","t","a","t","i","s","t","i","c","a","l"," ","a","n","a","l","y","s","i","s">>,  \* statistical analysis
    <<"m","a","t","h","e","m","a","t","i","c","a","l"," ","m","o","d","e","l","i","n","g">>,  \* mathematical modeling
    <<"s","u","p","p","l","y"," ","c","h","a","i","n">>,  \* supply chain
    <<"p","r","o","j","e","c","t"," ","m","a","n","a","g","e","m","e","n","t">>,  \* project management
    <<"f","i","n","a","n","c","i","a","l"," ","m","a","r","k","e","t","s">>,  \* financial markets
    <<"b","e","h","a","v","i","o","r","a","l"," ","e","c","o","n","o","m","i","c","s">>,  \* behavioral economics
    <<"d","i","g","i","t","a","l"," ","m","a","r","k","e","t","i","n","g">>,  \* digital marketing
    <<"b","u","s","i","n","e","s","s"," ","s","t","r","a","t","e","g","y">>,  \* business strategy
    <<"r","i","s","k"," ","m","a","n","a","g","e","m","e","n","t">>,  \* risk management
    <<"q","u","a","l","i","t","y"," ","a","s","s","u","r","a","n","c","e">>,  \* quality assurance
    <<"h","u","m","a","n"," ","a","n","a","t","o","m","y">>,  \* human anatomy
    <<"m","e","d","i","c","a","l"," ","e","t","h","i","c","s">>,  \* medical ethics
    <<"p","u","b","l","i","c"," ","h","e","a","l","t","h">>,  \* public health
    <<"m","e","n","t","a","l"," ","h","e","a","l","t","h">>,  \* mental health
    <<"p","h","y","s","i","c","a","l"," ","t","h","e","r","a","p","y">>,  \* physical therapy
    <<"p","h","a","r","m","a","c","e","u","t","i","c","a","l"," ","s","c","i","e","n","c","e">>,  \* pharmaceutical science
    <<"m","e","d","i","c","a","l"," ","i","m","a","g","i","n","g">>,  \* medical imaging
    <<"s","u","r","g","i","c","a","l"," ","p","r","o","c","e","d","u","r","e","s">>,  \* surgical procedures
    <<"p","r","e","v","e","n","t","i","v","e"," ","m","e","d","i","c","i","n","e">>,  \* preventive medicine
    <<"a","r","t"," ","h","i","s","t","o","r","y">>,  \* art history
    <<"w","o","r","l","d"," ","h","i","s","t","o","r","y">>,  \* world history
    <<"p","o","l","i","t","i","c","a","l"," ","s","c","i","e","n","c","e">>,  \* political science
    <<"s","o","c","i","a","l"," ","p","s","y","c","h","o","l","o","g","y">>,  \* social psychology
    <<"c","o","g","n","i","t","i","v","e"," ","p","s","y","c","h","o","l","o","g","y">>,  \* cognitive psychology
    <<"i","n","t","e","r","n","a","t","i","o","n","a","l"," ","r","e","l","a","t","i","o","n","s">>,  \* international relations
    <<"e","n","v","i","r","o","n","m","e","n","t","a","l"," ","l","a","w">>,  \* environmental law
    <<"c","o","n","s","t","i","t","u","t","i","o","n","a","l"," ","l","a","w">>,  \* constitutional law
    <<"e","d","u","c","a","t","i","o","n","a","l"," ","p","s","y","c","h","o","l","o","g","y">>  \* educational psychology
  }

\* validate_educational_concept: blocked first names (app.py:148-154)
common_first_names == {
    <<"j","o","h","n">>,  \* john
    <<"j","a","n","e">>,  \* jane
    <<"m","i","c","h","a","e","l">>,  \* michael
    <<"s","a","r","a","h">>,  \* sarah
    <<"d","a","v","i","d">>,  \* david
    <<"m","a","r","y">>,  \* mary
    <<"r","o","b","e","r","t">>,  \* robert
    <<"j","e","n","n","i","f","e","r">>,  \* jennifer
    <<"w","i","l","l","i","a","m">>,  \* william
    <<"e","l","i","z","a","b","e","t","h">>,  \* elizabeth
    <<"j","a","m","e","s">>,  \* james
    <<"m","a","r","i","a">>,  \* maria
    <<"c","h","r","i","s","t","o","p","h","e","r">>,  \* christopher
    <<"s","u","s","a","n">>,  \* susan
    <<"d","a","n","i","e","l">>,  \* daniel
    <<"j","e","s","s","i","c","a">>,  \* jessica
    <<"m","a","t","t","h","e","w">>,  \* matthew
    <<"k","a","r","e","n">>,  \* karen
    <<"a","n","t","h","o","n","y">>,  \* anthony
    <<"n","a","n","c","y">>,  \* nancy
    <<"m","a","r","k">>,  \* mark
    <<"l","i","s","a">>,  \* lisa
    <<"d","o","n","a","l","d">>,  \* donald
    <<"b","e","t","t","y">>,  \* betty
    <<"s","t","e","v","e","n">>,  \* steven
    <<"h","e","l","e","n">>,  \* helen
    <<"a","n","d","r","e","w">>,  \* andrew
    <<"s","a","n","d","r","a">>,  \* sandra
    <<"j","o","s","h","u","a">>,  \* joshua
    <<"d","o","n","n","a">>,  \* donna
    <<"u","t","k","a","r","s","h">>,  \* utkarsh
    <<"r","a","j">>,  \* raj
    <<"p","r","i","y","a">>,  \* priya
    <<"a","m","i","t">>,  \* amit
    <<"r","a","v","i">>,  \* ravi
    <<"n","e","h","a">>,  \* neha
    <<"r","a","h","u","l">>,  \* rahul
    <<"p","o","o","j","a">>,  \* pooja
    <<"v","i","k","r","a","m">>,  \* vikram
    <<"a","n","i","t","a">>,  \* anita
    <<"a","l","e","x">>,  \* alex
    <<"c","h","r","i","s">>,  \* chris
    <<"s","a","m">>,  \* sam
    <<"p","a","t">>,  \* pat
    <<"j","o","r","d","a","n">>,  \* jordan
    <<"t","a","y","l","o","r">>,  \* taylor
    <<"m","o","r","g","a","n">>,  \* morgan
    <<"c","a","s","e","y">>,  \* casey
    <<"r","i","l","e","y">>,  \* riley
    <<"a","v","e","r","y">>  \* avery
  }

\* validate_educational_concept: second words that are not surnames (app.py:169-171)
topic_continuation_words == {
    <<"l","e","a","r","n","i","n","g">>,  \* learning
    <<"r","e","a","l","i","t","y">>,  \* reality
    <<"p","h","y","s","i","c","s">>,  \* physics
    <<"s","c","i","e","n","c","e">>,  \* science
    <<"t","h","e","o","r","y">>,  \* theory
    <<"a","n","a","l","y","s","i","s">>,  \* analysis
    <<"s","t","u","d","y">>,  \* study
    <<"r","e","s","e","a","r","c","h">>,  \* research
    <<"e","n","g","i","n","e","e","r","i","n","g">>,  \* engineering
    <<"c","o","m","p","u","t","i","n","g">>,  \* computing
    <<"i","n","t","e","l","l","i","g","e","n","c","e">>,  \* intelligence
    <<"p","r","o","c","e","s","s","i","n","g">>,  \* processing
    <<"m","a","n","a","g","e","m","e","n","t">>,  \* management
    <<"d","e","v","e","l","o","p","m","e","n","t">>,  \* development
    <<"p","r","o","g","r","a","m","m","i","n","g">>,  \* programming
    <<"b","i","o","l","o","g","y">>,  \* biology
    <<"c","h","e","m","i","s","t","r","y">>,  \* chemistry
    <<"m","a","t","h","e","m","a","t","i","c","s">>,  \* mathematics
    <<"p","s","y","c","h","o","l","o","g","y">>,  \* psychology
    <<"h","i","s","t","o","r","y">>,  \* history
    <<"l","i","t","e","r","a","t","u","r","e">>  \* literature
  }

\* validate_educational_concept: vague inputs (app.py:179-182)
vague_questions == {
    <<"w","h","a","t">>,  \* what
    <<"w","h","y">>,  \* why
    <<"h","o","w">>,  \* how
    <<"w","h","e","n">>,  \* when
    <<"w","h","e","r","e">>,  \* where
    <<"w","h","o">>,  \* who
    <<"w","h","i","c","h">>,  \* which
    <<"t","e","l","l"," ","m","e">>,  \* tell me
    <<"e","x","p","l","a","i","n">>,  \* explain
    <<"h","e","l","p">>,  \* help
    <<"a","n","y","t","h","i","n","g">>,  \* anything
    <<"s","o","m","e","t","h","i","n","g">>,  \* something
    <<"n","o","t","h","i","n","g">>,  \* nothing
    <<"e","v","e","r","y","t","h","i","n","g">>,  \* everything
    <<"w","h","a","t","e","v","e","r">>,  \* whatever
    <<"s","t","u","f","f">>,  \* stuff
    <<"t","h","i","n","g","s">>  \* things
  }

\* validate_educational_concept: the regular expressions, each an alternation of
\* literals, the first two anchored at the start of the string (app.py:192-203)
non_educational_patterns == <<
    [anchored |-> TRUE, alts |-> {<<"h","e","y">>, <<"h","i">>, <<"h","e","l","l","o">>, <<"w","h","a","t","'","s"," ","u","p">>, <<"h","o","w"," ","a","r","e"," ","y","o","u">>, <<"g","o","o","d"," ","m","o","r","n","i","n","g">>, <<"g","o","o","d"," ","e","v","e","n","i","n","g">>}],
    [anchored |-> TRUE, alts |-> {<<"t","e","l","l"," ","m","e"," ","a","b","o","u","t"," ","y","o","u","r","s","e","l","f">>, <<"w","h","o"," ","a","r","e"," ","y","o","u">>, <<"w","h","a","t"," ","c","a","n"," ","y","o","u"," ","d","o">>, <<"w","h","a","t"," ","i","s"," ","t","h","i","s">>}],
    [anchored |-> FALSE, alts |-> {<<"g","o","s","s","i","p">>, <<"c","e","l","e","b","r","i","t","y">>, <<"e","n","t","e","r","t","a","i","n","m","e","n","t">>, <<"m","o","v","i","e"," ","s","t","a","r">>, <<"p","o","p"," ","s","t","a","r">>, <<"i","n","f","l","u","e","n","c","e","r">>}],
    [anchored |-> FALSE, alts |-> {<<"d","a","t","i","n","g">>, <<"r","e","l","a","t","i","o","n","s","h","i","p">>, <<"r","o","m","a","n","c","e">>, <<"l","o","v","e">>, <<"c","r","u","s","h">>, <<"b","o","y","f","r","i","e","n","d">>, <<"g","i","r","l","f","r","i","e","n","d">>}],
    [anchored |-> FALSE, alts |-> {<<"r","e","s","t","a","u","r","a","n","t">>, <<"f","o","o","d"," ","r","e","c","i","p","e">>, <<"c","o","o","k","i","n","g">>, <<"m","e","n","u">>, <<"p","i","z","z","a">>, <<"b","u","r","g","e","r">>}],
    [anchored |-> FALSE, alts |-> {<<"s","h","o","p","p","i","n","g">>, <<"b","u","y","i","n","g">>, <<"p","u","r","c","h","a","s","e">>, <<"s","a","l","e">>, <<"d","i","s","c","o","u","n","t">>, <<"p","r","i","c","e">>}],
    [anchored |-> FALSE, alts |-> {<<"w","e","a","t","h","e","r">>, <<"f","o","r","e","c","a","s","t">>, <<"t","e","m","p","e","r","a","t","u","r","e"," ","t","o","d","a","y">>, <<"r","a","i","n">>, <<"s","u","n","n","y">>}],
    [anchored |-> FALSE, alts |-> {<<"s","p","o","r","t","s"," ","s","c","o","r","e">>, <<"g","a","m","e"," ","r","e","s","u","l","t">>, <<"m","a","t","c","h"," ","r","e","s","u","l","t">>, <<"f","o","o","t","b","a","l","l">>, <<"b","a","s","k","e","t","b","a","l","l">>}],
    [anchored |-> FALSE, alts |-> {<<"n","e","w","s">>, <<"c","u","r","r","e","n","t"," ","e","v","e","n","t","s">>, <<"p","o","l","i","t","i","c","s"," ","t","o","d","a","y">>, <<"e","l","e","c","t","i","o","n">>, <<"v","o","t","e">>}],
    [anchored |-> FALSE, alts |-> {<<"t","e","s","t">>, <<"t","e","s","t","i","n","g">>, <<"c","h","e","c","k">>, <<"r","a","n","d","o","m">>, <<"t","r","i","a","l">>}]
  >>

\* validate_educational_concept: keywords (app.py:213-218)
educational_keywords == {
    <<"t","h","e","o","r","y">>,  \* theory
    <<"p","r","i","n","c","i","p","l","e">>,  \* principle
    <<"c","o","n","c","e","p","t">>,  \* concept
    <<"a","l","g","o","r","i","t","h","m">>,  \* algorithm
    <<"e","q","u","a","t","i","o","n">>,  \* equation
    <<"f","o","r","m","u","l","a">>,  \* formula
    <<"l","a","w">>,  \* law
    <<"t","h","e","o","r","e","m">>,  \* theorem
    <<"p","r","o","c","e","s","s">>,  \* process
    <<"m","e","t","h","o","d">>,  \* method
    <<"t","e","c","h","n","i","q","u","e">>,  \* technique
    <<"a","n","a","l","y","s","i","s">>,  \* analysis
    <<"s","y","n","t","h","e","s","i","s">>,  \* synthesis
    <<"r","e","s","e","a","r","c","h">>,  \* research
    <<"s","t","u","d","y">>,  \* study
    <<"l","e","a","r","n","i","n","g">>,  \* learning
    <<"s","c","i","e","n","c","e">>,  \* science
    <<"m","a","t","h">>,  \* math
    <<"p","h","y","s","i","c","s">>,  \* physics
    <<"c","h","e","m","i","s","t","r","y">>,  \* chemistry
    <<"b","i","o","l","o","g","y">>,  \* biology
    <<"h","i","s","t","o","r","y">>,  \* history
    <<"g","e","o","g","r","a","p","h","y">>,  \* geography
    <<"l","i","t","e","r","a","t","u","r","e">>,  \* literature
    <<"p","r","o","g","r","a","m","m","i","n","g">>,  \* programming
    <<"c","o","d","i","n","g">>,  \* coding
    <<"c","o","m","p","u","t","e","r">>,  \* computer
    <<"t","e","c","h","n","o","l","o","g","y">>,  \* technology
    <<"e","n","g","i","n","e","e","r","i","n","g">>,  \* engineering
    <<"m","e","d","i","c","i","n","e">>,  \* medicine
    <<"a","n","a","t","o","m","y">>  \* anatomy
  }

\* validate_educational_concept: suffixes (app.py:227-227)
technical_suffixes == {
    <<"i","s","m">>,  \* ism
    <<"o","l","o","g","y">>,  \* ology
    <<"t","i","o","n">>,  \* tion
    <<"s","i","o","n">>,  \* sion
    <<"m","e","n","t">>,  \* ment
    <<"n","e","s","s">>,  \* ness
    <<"i","c","s">>,  \* ics
    <<"i","n","g">>  \* ing
  }

\* validate_ai_response: the provider says the input was a name (app.py:309-326)
invalid_indicators == <<
    <<"a","p","p","e","a","r","s"," ","t","o"," ","b","e"," ","a"," ","p","e","r","s","o","n","'","s"," ","n","a","m","e">>,  \* appears to be a person's name
    <<"l","o","o","k","s"," ","l","i","k","e"," ","a"," ","p","e","r","s","o","n","a","l"," ","n","a","m","e">>,  \* looks like a personal name
    <<"s","e","e","m","s"," ","t","o"," ","b","e"," ","s","o","m","e","o","n","e","'","s"," ","n","a","m","e">>,  \* seems to be someone's name
    <<"i","s"," ","a"," ","p","e","r","s","o","n","'","s"," ","n","a","m","e">>,  \* is a person's name
    <<"t","h","i","s"," ","i","s"," ","a"," ","n","a","m","e">>,  \* this is a name
    <<"i","n","d","i","v","i","d","u","a","l","'","s"," ","n","a","m","e">>,  \* individual's name
    <<"a","p","p","e","a","r","s"," ","t","o"," ","b","e"," ","a","s","k","i","n","g"," ","a","b","o","u","t"," ","a"," ","p","e","r","s","o","n">>,  \* appears to be asking about a person
    <<"t","h","i","s"," ","s","e","e","m","s"," ","t","o"," ","b","e"," ","a"," ","p","e","r","s","o","n","a","l"," ","n","a","m","e">>,  \* this seems to be a personal name
    <<"i"," ","c","a","n","'","t"," ","p","r","o","v","i","d","e"," ","i","n","f","o","r","m","a","t","i","o","n"," ","a","b","o","u","t"," ","s","p","e","c","i","f","i","c"," ","i","n","d","i","v","i","d","u","a","l","s">>,  \* i can't provide information about specific individuals
    <<"i"," ","d","o","n","'","t"," ","h","a","v","e"," ","i","n","f","o","r","m","a","t","i","o","n"," ","a","b","o","u","t"," ","t","h","i","s"," ","p","e","r","s","o","n">>,  \* i don't have information about this person
    <<"t","h","i","s"," ","a","p","p","e","a","r","s"," ","t","o"," ","b","e"," ","a"," ","p","e","r","s","o","n","a","l"," ","q","u","e","r","y">>,  \* this appears to be a personal query
    <<"s","e","e","m","s"," ","l","i","k","e"," ","a"," ","p","e","r","s","o","n","a","l"," ","n","a","m","e">>,  \* seems like a personal name
    <<"l","o","o","k","s"," ","l","i","k","e"," ","y","o","u","'","r","e"," ","a","s","k","i","n","g"," ","a","b","o","u","t"," ","a"," ","p","e","r","s","o","n">>,  \* looks like you're asking about a person
    <<"t","h","i","s"," ","a","p","p","e","a","r","s"," ","t","o"," ","b","e"," ","a","b","o","u","t"," ","a"," ","s","p","e","c","i","f","i","c"," ","p","e","r","s","o","n">>,  \* this appears to be about a specific person
    <<"i"," ","c","a","n","n","o","t"," ","p","r","o","v","i","d","e"," ","p","e","r","s","o","n","a","l"," ","i","n","f","o","r","m","a","t","i","o","n">>,  \* i cannot provide personal information
    <<"a","p","p","e","a","r","s"," ","t","o"," ","b","e"," ","r","e","q","u","e","s","t","i","n","g"," ","i","n","f","o","r","m","a","t","i","o","n"," ","a","b","o","u","t"," ","a","n"," ","i","n","d","i","v","i","d","u","a","l">>  \* appears to be requesting information about an individual
  >>

\* validate_ai_response: refusals (app.py:337-345)
refusal_phrases == <<
    <<"i"," ","c","a","n","'","t">>,  \* i can't
    <<"i"," ","c","a","n","n","o","t">>,  \* i cannot
    <<"i","'","m"," ","n","o","t"," ","a","b","l","e">>,  \* i'm not able
    <<"i"," ","d","o","n","'","t"," ","h","a","v","e">>,  \* i don't have
    <<"n","o","t"," ","a","p","p","r","o","p","r","i","a","t","e">>,  \* not appropriate
    <<"c","a","n","n","o","t"," ","p","r","o","v","i","d","e">>,  \* cannot provide
    <<"u","n","a","b","l","e"," ","t","o"," ","p","r","o","v","i","d","e">>  \* unable to provide
  >>

\* explain_concept: the levels (app.py:769-769)
valid_levels == {
    <<"e","l","i","5">>,  \* eli5
    <<"s","t","u","d","e","n","t">>,  \* student
    <<"g","r","a","d","u","a","t","e">>,  \* graduate
    <<"a","d","v","a","n","c","e","d">>  \* advanced
  }

----------------------------------------------------------------------------
(* normalize_topic (app.py:240-270) *)

\* the loop of lines 262-265 from list position i on, without its break:
\* every later prefix is tried against what is left
RECURSIVE remove_prefixes_no_break(_, _)
remove_prefixes_no_break(normalized, i) ==
    IF i > Len(prefixes_to_remove) THEN normalized
    ELSE IF startswith(normalized, prefixes_to_remove[i])
         THEN remove_prefixes_no_break(
                  strip(SubSeq(normalized, Len(prefixes_to_remove[i]) + 1, Len(normalized))), i + 1)
         ELSE remove_prefixes_no_break(normalized, i + 1)

\* the loop of lines 262-265 walking the list from its end: of two prefixes
\* the string starts with, the later one in the list is cut off
RECURSIVE remove_last_listed_prefix(_, _)
remove_last_listed_prefix(normalized, i) ==
    LET k == Len(prefixes_to_remove) + 1 - i
    IN  IF i > Len(prefixes_to_remove) THEN normalized
        ELSE IF startswith(normalized, prefixes_to_remove[k])
             THEN strip(SubSeq(normalized, Len(prefixes_to_remove[k]) + 1, Len(normalized)))
             ELSE remove_last_listed_prefix(normalized, i + 1)

\* the loop of lines 262-265 from list position i on: the first prefix the
\* string starts with is cut off, the rest is stripped, and the loop ends
RECURSIVE remove_first_prefix(_, _)
remove_first_prefix(normalized, i) ==
    IF i > Len(prefixes_to_remove) THEN normalized
    ELSE IF startswith(normalized, prefixes_to_remove[i])
         THEN strip(SubSeq(normalized, Len(prefixes_to_remove[i]) + 1, Len(normalized)))
         ELSE remove_first_prefix(normalized, i + 1)

\* normalize_topic without its last statement (line 268)
normalize_topic_no_collapse(topic) ==
    IF topic = <<>> THEN <<>>
    ELSE remove_first_prefix(re_sub_nonword(strip(lower(topic))), 1)

normalize_topic(topic) ==
    IF topic = <<>> THEN <<>>
    ELSE LET lowered  == strip(lower(topic))
             nopunct  == re_sub_nonword(lowered)
             unprefix == remove_first_prefix(nopunct, 1)
         IN  join(split(unprefix))

----------------------------------------------------------------------------
(* validate_educational_concept (app.py:94-238) *)

\* re.search(pattern, s) for one entry of non_educational_patterns
re_search(pattern, s) ==
    \E alt \in pattern.alts :
        IF pattern.anchored THEN startswith(s, alt) ELSE contains(s, alt)

\* a check of two-word topics that never finds a name
looks_like_full_name_never(words) ==
    FALSE

\* lines 164-176: exactly two words, a blocked first name and a likely surname
looks_like_full_name(words) ==
    /\ Len(words) = 2
    /\ words[1] \in common_first_names
    /\ words[2] \notin topic_continuation_words
    /\ Len(words[2]) > 2

\* the validator with its upper length bound one character lower
validate_educational_concept_below_200(topic) ==
    LET topic_lower == strip(lower(topic))
        words       == split(topic_lower)
        Invalid(e)  == [is_valid |-> FALSE, error |-> e]
        Valid       == [is_valid |-> TRUE, error |-> "none"]
    IN  IF topic = <<>> THEN Invalid("Please enter a topic to explain")
        ELSE IF Len(topic_lower) < 2 THEN Invalid("Topic must be at least 2 characters long")
        ELSE IF Len(topic_lower) >= 200 THEN Invalid("Topic must be less than 200 characters")
        ELSE IF topic_lower \in educational_concepts THEN Valid
        ELSE IF topic_lower \in common_first_names THEN Invalid("appears to be a person's name")
        ELSE IF looks_like_full_name(words) THEN Invalid("This looks like a person's name")
        ELSE IF topic_lower \in vague_questions THEN Invalid("Please be more specific")
        ELSE IF \E k \in DOMAIN non_educational_patterns :
                    re_search(non_educational_patterns[k], topic_lower)
             THEN Invalid("I focus on educational and technical concepts")
        ELSE IF \E keyword \in educational_keywords : contains(topic_lower, keyword) THEN Valid
        ELSE IF \/ Len(words) > 1
                \/ Len(topic_lower) > 8
                \/ \E suffix \in technical_suffixes : endswith(topic_lower, suffix)
             THEN Valid
        ELSE Invalid("might be too vague")

\* the validator with the keyword rule before the pattern rule
validate_educational_concept_keyword_first(topic) ==
    LET topic_lower == strip(lower(topic))
        words       == split(topic_lower)
        Invalid(e)  == [is_valid |-> FALSE, error |-> e]
        Valid       == [is_valid |-> TRUE, error |-> "none"]
    IN  IF topic = <<>> THEN Invalid("Please enter a topic to explain")
        ELSE IF Len(topic_lower) < 2 THEN Invalid("Topic must be at least 2 characters long")
        ELSE IF Len(topic_lower) > 200 THEN Invalid("Topic must be less than 200 characters")
        ELSE IF topic_lower \in educational_concepts THEN Valid
        ELSE IF topic_lower \in common_first_names THEN Invalid("appears to be a person's name")
        ELSE IF looks_like_full_name(words) THEN Invalid("This looks like a person's name")
        ELSE IF topic_lower \in vague_questions THEN Invalid("Please be more specific")
        ELSE IF \E keyword \in educational_keywords : contains(topic_lower, keyword) THEN Valid
        ELSE IF \E k \in DOMAIN non_educational_patterns :
                    re_search(non_educational_patterns[k], topic_lower)
             THEN Invalid("I focus on educational and technical concepts")
        ELSE IF \/ Len(words) > 1
                \/ Len(topic_lower) > 8
                \/ \E suffix \in technical_suffixes : endswith(topic_lower, suffix)
             THEN Valid
        ELSE Invalid("might be too vague")

\* The verdict: is_valid and, when invalid, which of the messages of the code
\* is returned (the messages are pairwise different texts).
validate_educational_concept(topic) ==
    LET topic_lower == strip(lower(topic))
        words       == split(topic_lower)
        Invalid(e)  == [is_valid |-> FALSE, error |-> e]
        Valid       == [is_valid |-> TRUE, error |-> "none"]
    IN  IF topic = <<>> THEN Invalid("Please enter a topic to explain")
        ELSE IF Len(topic_lower) < 2 THEN Invalid("Topic must be at least 2 characters long")
        ELSE IF Len(topic_lower) > 200 THEN Invalid("Topic must be less than 200 characters")
        ELSE IF topic_lower \in educational_concepts THEN Valid
        ELSE IF topic_lower \in common_first_names THEN Invalid("appears to be a person's name")
        ELSE IF looks_like_full_name(words) THEN Invalid("This looks like a person's name")
        ELSE IF topic_lower \in vague_questions THEN Invalid("Please be more specific")
        ELSE IF \E k \in DOMAIN non_educational_patterns :
                    re_search(non_educational_patterns[k], topic_lower)
             THEN Invalid("I focus on educational and technical concepts")
        ELSE IF \E keyword \in educational_keywords : contains(topic_lower, keyword) THEN Valid
        ELSE IF \/ Len(words) > 1
                \/ Len(topic_lower) > 8
                \/ \E suffix \in technical_suffixes : endswith(topic_lower, suffix)
             THEN Valid
        ELSE Invalid("might be too vague")

----------------------------------------------------------------------------
(* validate_ai_response (app.py:298-352) *)

\* the response check measuring the text with its surrounding whitespace
validate_ai_response_unstripped(explanation) ==
    LET explanation_lower == lower(explanation)
    IN  /\ explanation # <<>>
        /\ ~ \E k \in DOMAIN invalid_indicators :
                 contains(explanation_lower, invalid_indicators[k])
        /\ ~ ( /\ Len(explanation) < 100
               /\ \E k \in DOMAIN refusal_phrases :
                      contains(explanation_lower, refusal_phrases[k]) )

validate_ai_response(explanation) ==
    LET explanation_lower == lower(explanation)
    IN  /\ explanation # <<>>
        /\ ~ \E k \in DOMAIN invalid_indicators :
                 contains(explanation_lower, invalid_indicators[k])
        /\ ~ ( /\ Len(strip(explanation)) < 100
               /\ \E k \in DOMAIN refusal_phrases :
                      contains(explanation_lower, refusal_phrases[k]) )

----------------------------------------------------------------------------
(* Bounds, and the inputs the requests are drawn from *)

\* requests that may wait for the provider's reply at the same time
MaxInFlight == 2

\* the last value of the database clock
MaxTime == 1

\* pieces an input of normalize_topic is concatenated from, at most
MaxPieces == 3

\* seconds a backend takes to reply, at most
MaxElapsed == 13

\* characters of a topic given to validate_educational_concept, at most
MaxTopicLen == 202

\* characters, before the line ends, of a text given to validate_ai_response,
\* at most
MaxResponseLen == 101

MachineLearning == <<"M","a","c","h","i","n","e"," ","L","e","a","r","n","i","n","g">>
ExplainMachineLearning == <<"e","x","p","l","a","i","n"," ","m","a","c","h","i","n","e"," ","l","e","a","r","n","i","n","g","!">>
TellMeExplainEntropy == <<"t","e","l","l"," ","m","e"," ","e","x","p","l","a","i","n"," ","e","n","t","r","o","p","y">>
John == <<"j","o","h","n">>
Student == <<"s","t","u","d","e","n","t">>
STUDENT == <<"S","T","U","D","E","N","T">>
Expert == <<"e","x","p","e","r","t">>
Eli5 == <<"e","l","i","5">>
Graduate == <<"g","r","a","d","u","a","t","e">>
Advanced == <<"a","d","v","a","n","c","e","d">>
GRADUATE == <<"G","R","A","D","U","A","T","E">>

Data(topic, level, force_refresh) ==
    [present |-> TRUE, topic |-> topic, level |-> level, force_refresh |-> force_refresh]

\* a request without a JSON body
NoData == [present |-> FALSE, topic |-> <<>>, level |-> <<>>, force_refresh |-> FALSE]

\* request.get_json() of the /explain requests: a topic in a wording and a
\* level in a spelling other than those of the key, a regeneration for the
\* same key as the test's request spells it, another key, a topic and a level
\* the handler rejects, a missing topic, a missing level, no body
ExplainRequests ==
    { Data(ExplainMachineLearning, STUDENT, FALSE),
      Data(MachineLearning, Student, TRUE),
      Data(TellMeExplainEntropy, Student, FALSE),
      Data(John, Student, FALSE),
      Data(MachineLearning, Expert, FALSE),
      Data(<<" ">>, Student, FALSE),
      Data(MachineLearning, <<>>, TRUE),
      NoData }

\* request.get_json() of the /delete-topic requests
DeleteRequests ==
    { Data(MachineLearning, Student, FALSE),
      Data(ExplainMachineLearning, STUDENT, FALSE),
      Data(TellMeExplainEntropy, Student, FALSE),
      Data(John, Expert, FALSE),
      Data(<<>>, Student, FALSE),
      NoData }

\* topics that are a prefix of prefixes_to_remove and nothing else, one of them
\* with punctuation
WhatIs == <<"w","h","a","t"," ","i","s">>
ExplainMarks == <<"E","x","p","l","a","i","n","!","!">>

\* request.get_json() of /explain requests with such topics
PrefixOnlyRequests ==
    { Data(WhatIs, Student, FALSE),
      Data(ExplainMarks, STUDENT, TRUE) }

\* request.get_json() of a /delete-topic request with such a topic
PrefixOnlyDeletes == {Data(ExplainMarks, Student, FALSE)}

TextA == <<"M","a","c","h","i","n","e","s"," ","l","e","a","r","n"," ","f","r","o","m"," ","d","a","t","a",".">>
TextB == <<"M","o","d","e","l","s"," ","i","m","p","r","o","v","e"," ","w","i","t","h"," ","e","x","a","m","p","l","e","s",".">>
TextName == <<"T","h","i","s"," ","i","s"," ","a"," ","n","a","m","e",","," ","n","o","t"," ","a"," ","t","o","p","i","c",".">>

\* what the provider's HTTP call may come to: two texts, a text that says the
\* topic was a name, and no reply
Replies ==
    {[kind |-> "ok", text |-> x, truncated |-> FALSE] : x \in {TextA, TextB, TextName}}
    \cup {[kind |-> "transport", text |-> <<>>, truncated |-> FALSE]}

----------------------------------------------------------------------------
(* The functions above on the strings of the requests: a table each, which is *)
(* computed once, and the function itself on every other string            *)

AllRequests == ExplainRequests \cup DeleteRequests \cup PrefixOnlyRequests \cup PrefixOnlyDeletes

RequestStrings == {d.topic : d \in AllRequests} \cup {d.level : d \in AllRequests}

RequestTopics == {strip(d.topic) : d \in AllRequests}

ReplyTexts == {r.text : r \in Replies}

strip_table == [s \in RequestStrings |-> strip(s)]

lower_table == [s \in RequestStrings |-> lower(s)]

normalize_topic_table == [topic \in RequestTopics |-> normalize_topic(topic)]

validate_educational_concept_table ==
    [topic \in RequestTopics |-> validate_educational_concept(topic)]

validate_ai_response_table == [text \in ReplyTexts |-> validate_ai_response(text)]

\* s.strip()
stripped(s) == IF s \in RequestStrings THEN strip_table[s] ELSE strip(s)

\* s.lower()
lowered(s) == IF s \in RequestStrings THEN lower_table[s] ELSE lower(s)

\* normalize_topic(topic)
normalized(topic) ==
    IF topic \in RequestTopics THEN normalize_topic_table[topic] ELSE normalize_topic(topic)

\* validate_educational_concept(topic)
validated(topic) ==
    IF topic \in RequestTopics THEN validate_educational_concept_table[topic]
    ELSE validate_educational_concept(topic)

\* validate_ai_response(explanation, topic)
response_is_valid(explanation) ==
    IF explanation \in ReplyTexts THEN validate_ai_response_table[explanation]
    ELSE validate_ai_response(explanation)

----------------------------------------------------------------------------
(* The state *)

VARIABLES
    GOOGLE_API_KEY,      \* whether the environment sets GOOGLE_API_KEY (line 21)
    OPENROUTER_API_KEY,  \* whether the environment sets OPENROUTER_API_KEY (line 17)
    explanations,        \* the rows of table explanations
    now,                 \* CURRENT_TIMESTAMP of the database
    in_flight,           \* the /explain requests that wait for the provider's reply
    last,                \* the request a handler completed last, and its response
    probe                \* a function under test: its argument and results

vars == <<GOOGLE_API_KEY, OPENROUTER_API_KEY, explanations, now, in_flight, last, probe>>

service_vars == <<GOOGLE_API_KEY, OPENROUTER_API_KEY, explanations, now, in_flight, last>>

\* line 47
USE_GOOGLE_API == GOOGLE_API_KEY

----------------------------------------------------------------------------
(* The explanations table (app.py:65-74) and its three statements *)

Row(topic, level, explanation, timestamp) ==
    [topic |-> topic, level |-> level, explanation |-> explanation, timestamp |-> timestamp]

\* the rows a statement's  WHERE topic = ? AND level = ?  selects
rows_where(table, topic, level) ==
    {row \in table : row.topic = topic /\ row.level = level}

\* INSERT into a table without the UNIQUE(topic, level) constraint: one more row
insert_no_unique(table, topic, level, explanation, timestamp) ==
    table \cup {Row(topic, level, explanation, timestamp)}

\* INSERT OR IGNORE: a row in conflict is kept and the new one dropped
insert_or_ignore(table, topic, level, explanation, timestamp) ==
    IF rows_where(table, topic, level) # {} THEN table
    ELSE table \cup {Row(topic, level, explanation, timestamp)}

\* INSERT OR REPLACE (line 367) under UNIQUE(topic, level) (line 72): the rows
\* in conflict are deleted, the new row gets the default timestamp (line 71)
insert_or_replace(table, topic, level, explanation, timestamp) ==
    (table \ rows_where(table, topic, level)) \cup {Row(topic, level, explanation, timestamp)}

\* get_cached_explanation with the level passed on as it came, not lower-cased
get_cached_explanation_raw_level(table, topic, level, db_error) ==
    LET result == rows_where(table, normalized(topic), level)
    IN  IF db_error \/ result = {} THEN <<>>
        ELSE <<(CHOOSE row \in result : TRUE).explanation>>

\* get_cached_explanation (app.py:272-296): <<e>> for the explanation e of the
\* row fetchone() returns, <<>> for None (no row, or an exception, line 294)
get_cached_explanation(table, topic, level, db_error) ==
    LET normalized_topic == normalized(topic)
        result == rows_where(table, normalized_topic, lowered(level))
    IN  IF db_error \/ result = {} THEN <<>>
        ELSE <<(CHOOSE row \in result : TRUE).explanation>>

\* save_explanation storing the topic as passed, not normalized
save_explanation_raw_topic(table, topic, level, explanation, timestamp, db_error) ==
    IF db_error THEN table
    ELSE insert_or_replace(table, topic, lowered(level), explanation, timestamp)

\* save_explanation (app.py:354-378): the table afterwards; an exception
\* (line 373) leaves it as it was
save_explanation(table, topic, level, explanation, timestamp, db_error) ==
    IF db_error THEN table
    ELSE insert_or_replace(table, normalized(topic), lowered(level), explanation, timestamp)

----------------------------------------------------------------------------
(* The provider (app.py:380-742) *)

\* the note of lines 551 and 733
TRUNCATION_NOTE ==
    <<"\n","\n","*","[","N","o","t","e",":"," ","T","h","i","s"," ","e","x","p","l","a","n","a","t","i","o","n"," ","w","a","s"," ","t","r","u","n","c","a","t","e","d"," ","d","u","e"," ","t","o"," ","l","e","n","g","t","h"," ","l","i","m","i","t","s","."," ","T","r","y"," ","a","s","k","i","n","g"," ","f","o","r"," ","a"," ","m","o","r","e"," ","s","p","e","c","i","f","i","c"," ","a","s","p","e","c","t"," ","o","f"," ","t","h","i","s"," ","t","o","p","i","c"," ","f","o","r"," ","a"," ","c","o","m","p","l","e","t","e"," ","a","n","s","w","e","r",".","]","*">>

\* What the HTTP call of a backend comes to, as reply.kind: "transport" (no
\* connection, no reply within the timeout), "http_status" (raise_for_status
\* raises), "no_candidates" (a body without candidates / choices), "no_parts"
\* (a candidate without content.parts / a choice without message), "no_text"
\* (KeyError or IndexError on the way to the text), "unexpected" (any other
\* exception, as of a body that is no JSON object), or "ok" with reply.text
\* and reply.truncated. The result is the pair (explanation, error) of the
\* code, error "none" for None, and the backend that was called.

\* timeout_duration with one value for every level
timeout_duration_flat(level) == 10

\* timeout_duration of lines 530 and 717, in seconds
timeout_duration(level) ==
    IF lower(level) \in {Graduate, Advanced} THEN 12 ELSE 10

\* requests.post(..., timeout=timeout_duration) of lines 535 and 720 for a
\* backend that takes elapsed seconds to come to reply: past the timeout the
\* call raises requests.exceptions.Timeout, a RequestException
requests_post(level, reply, elapsed) ==
    IF elapsed > timeout_duration(level)
        THEN [kind |-> "transport", text |-> <<>>, truncated |-> FALSE]
    ELSE reply

provider_text(reply) ==
    IF reply.truncated THEN reply.text \o TRUNCATION_NOTE ELSE reply.text

\* get_google_ai_explanation with one except clause for every failure
get_google_ai_explanation_one_except(reply) ==
    IF reply.kind # "ok"
        THEN [explanation |-> <<>>, error |-> "Google API request failed", backend |-> "google"]
    ELSE [explanation |-> provider_text(reply), error |-> "none", backend |-> "google"]

\* get_google_ai_explanation (app.py:390-560)
get_google_ai_explanation(reply) ==
    LET Failure(e) == [explanation |-> <<>>, error |-> e, backend |-> "google"]
    IN  CASE reply.kind \in {"transport", "http_status"} ->
                 Failure("Google API request failed")
          [] reply.kind = "no_candidates" ->
                 Failure("Invalid response from Google AI service")
          [] reply.kind = "no_parts" ->
                 Failure("Invalid response format from Google AI service")
          [] reply.kind = "no_text" ->
                 Failure("Invalid Google API response format")
          [] reply.kind = "unexpected" ->
                 Failure("Unexpected error")
          [] OTHER ->
                 [explanation |-> provider_text(reply), error |-> "none", backend |-> "google"]

\* get_openrouter_explanation (app.py:562-742)
get_openrouter_explanation(reply) ==
    LET Failure(e) == [explanation |-> <<>>, error |-> e, backend |-> "openrouter"]
    IN  CASE ~OPENROUTER_API_KEY ->
                 [explanation |-> <<>>, error |-> "OpenRouter API key not configured",
                  backend |-> "none"]
          [] reply.kind \in {"transport", "http_status"} ->
                 Failure("API request failed")
          [] reply.kind = "no_candidates" ->
                 Failure("Invalid response from AI service")
          [] reply.kind \in {"no_parts", "no_text"} ->
                 Failure("Invalid API response format")
          [] reply.kind = "unexpected" ->
                 Failure("Unexpected error")
          [] OTHER ->
                 [explanation |-> provider_text(reply), error |-> "none", backend |-> "openrouter"]

\* get_ai_explanation that turns to OpenRouter when the Google call fails
get_ai_explanation_with_fallback(reply) ==
    IF USE_GOOGLE_API /\ GOOGLE_API_KEY
        THEN IF get_google_ai_explanation(reply).error # "none" /\ OPENROUTER_API_KEY
                 THEN get_openrouter_explanation(reply)
             ELSE get_google_ai_explanation(reply)
    ELSE IF OPENROUTER_API_KEY THEN get_openrouter_explanation(reply)
    ELSE [explanation |-> <<>>, error |-> "No API key configured", backend |-> "none"]

\* get_ai_explanation (app.py:380-388)
get_ai_explanation(reply) ==
    IF USE_GOOGLE_API /\ GOOGLE_API_KEY THEN get_google_ai_explanation(reply)
    ELSE IF OPENROUTER_API_KEY THEN get_openrouter_explanation(reply)
    ELSE [explanation |-> <<>>, error |-> "No API key configured", backend |-> "none"]

----------------------------------------------------------------------------
(* The /explain handler, explain_concept (app.py:744-836) *)

\* A JSON response of a handler: the HTTP status and the keys of the body; a
\* key the body does not have is FALSE, "none" or (has_explanation) absent.
ErrorResponse(status, error) ==
    [status |-> status, error |-> error, has_explanation |-> FALSE, explanation |-> <<>>,
     cached |-> FALSE, regenerated |-> FALSE, api_used |-> "none",
     ai_detected_invalid |-> FALSE]

ExplanationResponse(explanation, cached, regenerated, api_used) ==
    [status |-> 200, error |-> "none", has_explanation |-> TRUE, explanation |-> explanation,
     cached |-> cached, regenerated |-> regenerated, api_used |-> api_used,
     ai_detected_invalid |-> FALSE]

\* the response of a handler that has not returned
NoResponse == ErrorResponse(0, "none")

\* the checks of lines 747-776 without the one of the level against valid_levels
explain_concept_check_any_level(data) ==
    LET topic == stripped(data.topic)
        level == stripped(data.level)
        validation_result == validated(topic)
    IN  IF ~GOOGLE_API_KEY /\ ~OPENROUTER_API_KEY
            THEN ErrorResponse(500, "No API keys configured on server")
        ELSE IF ~data.present THEN ErrorResponse(400, "No JSON data provided")
        ELSE IF topic = <<>> THEN ErrorResponse(400, "Topic is required")
        ELSE IF level = <<>> THEN ErrorResponse(400, "Level is required")
        ELSE IF ~validation_result.is_valid THEN ErrorResponse(400, validation_result.error)
        ELSE NoResponse

\* lines 747-776: the checks of the configuration and of the request, in the
\* order of the code; the error response of the first that fails, NoResponse
\* when all pass
explain_concept_check(data) ==
    LET topic == stripped(data.topic)
        level == stripped(data.level)
        validation_result == validated(topic)
    IN  IF ~GOOGLE_API_KEY /\ ~OPENROUTER_API_KEY
            THEN ErrorResponse(500, "No API keys configured on server")
        ELSE IF ~data.present THEN ErrorResponse(400, "No JSON data provided")
        ELSE IF topic = <<>> THEN ErrorResponse(400, "Topic is required")
        ELSE IF level = <<>> THEN ErrorResponse(400, "Level is required")
        ELSE IF lowered(level) \notin valid_levels THEN ErrorResponse(400, "Invalid level")
        ELSE IF ~validation_result.is_valid THEN ErrorResponse(400, validation_result.error)
        ELSE NoResponse

\* lines 747-796 with a cache read whose failure ends the request in an error
explain_concept_lookup_fatal_read(data, db_error) ==
    LET topic == stripped(data.topic)
        level == stripped(data.level)
        rejection == explain_concept_check(data)
        cached_explanation == get_cached_explanation(explanations, topic, level, db_error)
    IN  IF rejection # NoResponse
            THEN [finished |-> TRUE, response |-> rejection, cache_read |-> FALSE]
        ELSE IF data.force_refresh
            THEN [finished |-> FALSE, response |-> NoResponse, cache_read |-> FALSE]
        ELSE IF db_error
            THEN [finished |-> TRUE, response |-> ErrorResponse(500, "Server error"),
                  cache_read |-> TRUE]
        ELSE IF cached_explanation # <<>> /\ cached_explanation[1] # <<>>
            THEN [finished |-> TRUE, cache_read |-> TRUE,
                  response |-> ExplanationResponse(cached_explanation[1], TRUE, FALSE, "Cached")]
        ELSE [finished |-> FALSE, response |-> NoResponse, cache_read |-> TRUE]

\* lines 747-796: the request up to the cache lookup. finished says whether the
\* handler has returned; cache_read whether get_cached_explanation was called.
explain_concept_lookup(data, db_error) ==
    LET topic == stripped(data.topic)
        level == stripped(data.level)
        rejection == explain_concept_check(data)
        cached_explanation == get_cached_explanation(explanations, topic, level, db_error)
    IN  IF rejection # NoResponse
            THEN [finished |-> TRUE, response |-> rejection, cache_read |-> FALSE]
        ELSE IF data.force_refresh
            THEN [finished |-> FALSE, response |-> NoResponse, cache_read |-> FALSE]
        ELSE IF cached_explanation # <<>> /\ cached_explanation[1] # <<>>
            THEN [finished |-> TRUE, cache_read |-> TRUE,
                  response |-> ExplanationResponse(cached_explanation[1], TRUE, FALSE, "Cached")]
        ELSE [finished |-> FALSE, response |-> NoResponse, cache_read |-> TRUE]

\* lines 797-830 with the response validation skipped: every reply without an
\* error is saved and returned
explain_concept_provider_unvalidated(request, reply, db_error) ==
    LET result == get_ai_explanation(reply)
    IN  IF result.error # "none"
            THEN [response |-> ErrorResponse(500, result.error), table |-> explanations,
                  cache_write |-> FALSE, provider_call |-> result.backend, text |-> <<>>]
        ELSE [response |-> ExplanationResponse(result.explanation, FALSE, request.force_refresh,
                              IF USE_GOOGLE_API THEN "Google AI Studio" ELSE "OpenRouter"),
              table |-> save_explanation(explanations, request.topic, request.level,
                                         result.explanation, now, db_error),
              cache_write |-> TRUE, provider_call |-> result.backend,
              text |-> <<result.explanation>>]

\* the provider step of a handler that, for force_refresh, removes the row of
\* the key before it calls the provider
explain_concept_provider_clear_on_refresh(request, reply, db_error) ==
    LET result == get_ai_explanation(reply)
        cleared == IF request.force_refresh
                     THEN explanations \ rows_where(explanations, normalized(request.topic),
                                                    lowered(request.level))
                     ELSE explanations
        is_valid_response == response_is_valid(result.explanation)
    IN  IF result.error # "none"
            THEN [response |-> ErrorResponse(500, result.error), table |-> cleared,
                  cache_write |-> FALSE, provider_call |-> result.backend, text |-> <<>>]
        ELSE IF ~is_valid_response
            THEN [response |-> [ErrorResponse(400, "This appears to be a personal name or non-educational topic")
                                   EXCEPT !.ai_detected_invalid = TRUE],
                  table |-> cleared,
                  cache_write |-> FALSE, provider_call |-> result.backend,
                  text |-> <<result.explanation>>]
        ELSE [response |-> ExplanationResponse(result.explanation, FALSE, request.force_refresh,
                              IF USE_GOOGLE_API THEN "Google AI Studio" ELSE "OpenRouter"),
              table |-> save_explanation(explanations, request.topic, request.level,
                                         result.explanation, now, db_error),
              cache_write |-> TRUE, provider_call |-> result.backend,
              text |-> <<result.explanation>>]

\* lines 797-830: the provider's reply, the response validation and the save.
\* table is the explanations table afterwards, text the explanation the
\* provider returned, <<>> when it returned an error.
explain_concept_provider(request, reply, db_error) ==
    LET result == get_ai_explanation(reply)
        is_valid_response == response_is_valid(result.explanation)
    IN  IF result.error # "none"
            THEN [response |-> ErrorResponse(500, result.error), table |-> explanations,
                  cache_write |-> FALSE, provider_call |-> result.backend, text |-> <<>>]
        ELSE IF ~is_valid_response
            THEN [response |-> [ErrorResponse(400, "This appears to be a personal name or non-educational topic")
                                   EXCEPT !.ai_detected_invalid = TRUE],
                  table |-> explanations,
                  cache_write |-> FALSE, provider_call |-> result.backend,
                  text |-> <<result.explanation>>]
        ELSE [response |-> ExplanationResponse(result.explanation, FALSE, request.force_refresh,
                              IF USE_GOOGLE_API THEN "Google AI Studio" ELSE "OpenRouter"),
              table |-> save_explanation(explanations, request.topic, request.level,
                                         result.explanation, now, db_error),
              cache_write |-> TRUE, provider_call |-> result.backend,
              text |-> <<result.explanation>>]

----------------------------------------------------------------------------
(* The /delete-topic handler, delete_topic (app.py:891-941) *)

\* delete_topic with a DELETE that selects by the level alone
delete_topic_whole_level(data, db_error) ==
    LET topic == stripped(data.topic)
        level == stripped(data.level)
        found == {row \in explanations : row.level = lowered(level)}
        deleted_count == Cardinality(found)
        Return(status, error, deleted, count, table) ==
            [status |-> status, error |-> error, deleted |-> deleted,
             deleted_count |-> count, table |-> table,
             body |-> IF error = "none" THEN {"message", "deleted"} ELSE {"error"}]
    IN  IF ~data.present THEN Return(400, "No JSON data provided", FALSE, 0, explanations)
        ELSE IF topic = <<>> THEN Return(400, "Topic is required", FALSE, 0, explanations)
        ELSE IF level = <<>> THEN Return(400, "Level is required", FALSE, 0, explanations)
        ELSE IF db_error THEN Return(500, "Server error", FALSE, 0, explanations)
        ELSE IF deleted_count > 0
            THEN Return(200, "none", TRUE, deleted_count, explanations \ found)
        ELSE Return(404, "none", FALSE, 0, explanations)

\* delete_topic (app.py:891-941): the status and the JSON body of the
\* response, body being its keys and error and deleted their values; the
\* rowcount of the DELETE, and the table afterwards
delete_topic(data, db_error) ==
    LET topic == stripped(data.topic)
        level == stripped(data.level)
        normalized_topic == normalized(topic)
        found == rows_where(explanations, normalized_topic, lowered(level))
        deleted_count == Cardinality(found)
        Return(status, error, deleted, count, table) ==
            [status |-> status, error |-> error, deleted |-> deleted,
             deleted_count |-> count, table |-> table,
             body |-> IF error = "none" THEN {"message", "deleted"} ELSE {"error"}]
    IN  IF ~data.present THEN Return(400, "No JSON data provided", FALSE, 0, explanations)
        ELSE IF topic = <<>> THEN Return(400, "Topic is required", FALSE, 0, explanations)
        ELSE IF level = <<>> THEN Return(400, "Level is required", FALSE, 0, explanations)
        ELSE IF db_error THEN Return(500, "Server error", FALSE, 0, explanations)
        ELSE IF deleted_count > 0
            THEN Return(200, "none", TRUE, deleted_count, explanations \ found)
        ELSE Return(404, "none", FALSE, 0, explanations)

----------------------------------------------------------------------------
(* The service: the two handlers on one table *)

\* last before any handler has completed; the record of a completed handler
\* holds the request (topic and level stripped, as the handler reads them),
\* the response, and what the handler did on the way: whether it read the
\* cache and whether that raised, whether it called save_explanation and
\* whether that raised, which
\* backend it called and the text that returned, and what the cache held for
\* the key before the save.
NoRequest ==
    [op |-> "none", topic |-> <<>>, level |-> <<>>, force_refresh |-> FALSE,
     response |-> NoResponse, deleted |-> FALSE, deleted_count |-> 0,
     cache_read |-> FALSE, read_failed |-> FALSE, cache_write |-> FALSE,
     write_failed |-> FALSE,
     provider_call |-> "none", reply_text |-> <<>>, previous |-> <<>>, body |-> {}]

NoProbe == [fn |-> "none"]

Init ==
    /\ GOOGLE_API_KEY \in BOOLEAN
    /\ OPENROUTER_API_KEY \in BOOLEAN
    /\ explanations = {}
    /\ now = 0
    /\ in_flight = EmptyBag
    /\ last = NoRequest
    /\ probe = NoProbe

\* A client posts data to /explain; the handler runs up to the cache lookup and
\* either returns or goes on to call the provider. db_error: the read raises,
\* which takes a handler that comes to the read.
Explain(data, db_error) ==
    LET step == explain_concept_lookup(data, db_error)
        topic == stripped(data.topic)
        level == stripped(data.level)
    IN  /\ db_error => step.cache_read
        /\ IF step.finished
             THEN /\ last' = [NoRequest EXCEPT
                                 !.op = "explain", !.topic = topic, !.level = level,
                                 !.force_refresh = data.force_refresh,
                                 !.response = step.response,
                                 !.cache_read = step.cache_read]
                  /\ UNCHANGED in_flight
             ELSE /\ BagCardinality(in_flight) < MaxInFlight
                  /\ in_flight' = in_flight (+) SetToBag({
                         [topic |-> topic, level |-> level,
                          force_refresh |-> data.force_refresh,
                          cache_read |-> step.cache_read,
                          read_failed |-> step.cache_read /\ db_error]})
                  /\ UNCHANGED last
        /\ UNCHANGED <<GOOGLE_API_KEY, OPENROUTER_API_KEY, explanations, now, probe>>

\* The provider's call of a waiting request ends with reply; the handler
\* validates the text, saves it and returns. db_error: the write raises, which
\* takes a handler that comes to the write.
ProviderReply(request, reply, db_error) ==
    LET step == explain_concept_provider(request, reply, db_error)
    IN  /\ BagIn(request, in_flight)
        /\ db_error => step.cache_write
        /\ in_flight' = in_flight (-) SetToBag({request})
        /\ explanations' = step.table
        /\ last' = [NoRequest EXCEPT
                       !.op = "explain", !.topic = request.topic, !.level = request.level,
                       !.force_refresh = request.force_refresh,
                       !.response = step.response,
                       !.cache_read = request.cache_read,
                       !.read_failed = request.read_failed,
                       !.cache_write = step.cache_write,
                       !.write_failed = step.cache_write /\ db_error,
                       !.provider_call = step.provider_call,
                       !.reply_text = step.text,
                       !.previous = get_cached_explanation(explanations, request.topic,
                                                           request.level, FALSE)]
        /\ UNCHANGED <<GOOGLE_API_KEY, OPENROUTER_API_KEY, now, probe>>

\* A client sends data to /delete-topic. db_error: the statement raises, which
\* takes a handler that comes to the statement.
Delete(data, db_error) ==
    LET step == delete_topic(data, db_error)
    IN  /\ db_error => step.status = 500
        /\ explanations' = step.table
        /\ last' = [NoRequest EXCEPT
                       !.op = "delete", !.topic = stripped(data.topic), !.level = stripped(data.level),
                       !.response = ErrorResponse(step.status, step.error),
                       !.deleted = step.deleted, !.deleted_count = step.deleted_count,
                       !.body = step.body]
        /\ UNCHANGED <<GOOGLE_API_KEY, OPENROUTER_API_KEY, now, in_flight, probe>>

Next ==
    \/ \E data \in ExplainRequests, db_error \in BOOLEAN : Explain(data, db_error)
    \/ \E request \in BagToSet(in_flight), reply \in Replies, db_error \in BOOLEAN :
           ProviderReply(request, reply, db_error)
    \/ \E data \in DeleteRequests, db_error \in BOOLEAN : Delete(data, db_error)

Spec == Init /\ [][Next]_vars

----------------------------------------------------------------------------
(* Properties of the service *)

ProviderConfigured == GOOGLE_API_KEY \/ OPENROUTER_API_KEY

\* the explanations of the rows stored under the key of (topic, level)
StoredUnder(table, topic, level) ==
    {row.explanation : row \in rows_where(table, normalized(topic), lowered(level))}

\* the handler that completed last was explain_concept, it called the provider,
\* returned the explanation, and save_explanation did not raise
AnsweredFresh ==
    /\ last.op = "explain"
    /\ last.response.status = 200
    /\ ~last.response.cached
    /\ ~last.write_failed

\* explain_concept, up to the cache lookup, for the request of last once more,
\* without force_refresh and with no failure of the read
SameRequestAgain == explain_concept_lookup(Data(last.topic, last.level, FALSE), FALSE)

\* the request of last once more is answered from the cache, with text, before
\* the handler comes to the provider
AgainServedFromCache(text) ==
    /\ SameRequestAgain.finished
    /\ SameRequestAgain.response = ExplanationResponse(text, TRUE, FALSE, "Cached")

\* C1: with a provider configured, a request without force_refresh that passes
\* the checks and finds no row under its key goes on to the provider after the
\* lookup; when the provider's text is accepted and the save does not raise,
\* the answer has cached = false and the text, the text is the one explanation
\* stored under (normalize_topic(topic), level.lower()), and the same request
\* once more is answered at the lookup with cached = true and the same text,
\* without a provider call. An answer from the cache involves no provider call
\* and no write.
C1_MissThenHit ==
    /\ \A data \in ExplainRequests :
           ( /\ ProviderConfigured
             /\ explain_concept_check(data) = NoResponse
             /\ ~data.force_refresh
             /\ StoredUnder(explanations, stripped(data.topic), stripped(data.level)) = {} )
           => LET step == explain_concept_lookup(data, FALSE)
              IN  ~step.finished /\ step.cache_read
    /\ (AnsweredFresh /\ ~last.force_refresh) =>
           /\ ProviderConfigured
           /\ last.cache_read /\ last.cache_write
           /\ last.provider_call \in {"google", "openrouter"}
           /\ last.response.has_explanation
           /\ last.reply_text = <<last.response.explanation>>
           /\ response_is_valid(last.response.explanation)
           /\ StoredUnder(explanations, last.topic, last.level) = {last.response.explanation}
           /\ AgainServedFromCache(last.response.explanation)
    /\ (last.op = "explain" /\ last.response.cached) =>
           /\ last.response.status = 200
           /\ last.cache_read
           /\ last.provider_call = "none"
           /\ ~last.cache_write
           /\ StoredUnder(explanations, last.topic, last.level) = {last.response.explanation}

\* a miss, for a request in a wording and a spelling other than those of the
\* key, that was answered by the provider and stored
C1_Witness ==
    /\ AnsweredFresh /\ ~last.force_refresh
    /\ last.previous = <<>>
    /\ normalized(last.topic) # last.topic /\ lowered(last.level) # last.level
    /\ \E row \in explanations :
           /\ row.topic = normalized(last.topic) /\ row.level = lowered(last.level)
           /\ row.explanation = last.response.explanation
    /\ AgainServedFromCache(last.response.explanation)

\* C2: a request with force_refresh that passes the checks is never answered
\* at the lookup and never reads the cache, whatever is stored under its key:
\* it goes on to the provider. When the provider's text is accepted and the
\* save does not raise, the answer has cached = false and regenerated = true,
\* the text replaces what was stored under the key, and the same request
\* without force_refresh is then answered from the cache with the new text.
C2_ForceRefresh ==
    /\ \A data \in ExplainRequests, db_error \in BOOLEAN :
           (explain_concept_check(data) = NoResponse /\ data.force_refresh)
           => LET step == explain_concept_lookup(data, db_error)
              IN  ~step.finished /\ ~step.cache_read
    /\ \A request \in BagToSet(in_flight) : request.force_refresh => ~request.cache_read
    /\ (last.op = "explain" /\ last.force_refresh) =>
           /\ ~last.cache_read
           /\ ~last.response.cached
           /\ explain_concept_check(Data(last.topic, last.level, TRUE)) = NoResponse
                  => last.provider_call \in {"google", "openrouter"}
    /\ (AnsweredFresh /\ last.force_refresh) =>
           /\ last.response.has_explanation
           /\ last.response.regenerated
           /\ last.cache_write
           /\ last.reply_text = <<last.response.explanation>>
           /\ StoredUnder(explanations, last.topic, last.level) = {last.response.explanation}
           /\ AgainServedFromCache(last.response.explanation)

\* a regeneration for a key that held another text
C2_Witness ==
    /\ AnsweredFresh /\ last.force_refresh
    /\ last.previous # <<>>
    /\ last.previous # <<last.response.explanation>>
    /\ StoredUnder(explanations, last.topic, last.level) = {last.response.explanation}

\* the provider returned a text to the handler that completed last, and
\* validate_ai_response rejects it
ReplyRejected ==
    /\ last.op = "explain"
    /\ last.reply_text # <<>>
    /\ ~response_is_valid(last.reply_text[1])

\* C8: when validate_ai_response rejects the provider's text, the request ends
\* with status 400 and ai_detected_invalid, without an explanation, and
\* save_explanation is not called: what is stored under the key is what was
\* stored before. That error is returned in no other case. Every explanation
\* in the table is one validate_ai_response accepts.
C8_RejectedNeverStored ==
    /\ ReplyRejected =>
           /\ last.response.status = 400
           /\ last.response.ai_detected_invalid
           /\ last.response.error # "none"
           /\ ~last.response.has_explanation
           /\ ~last.cache_write
           /\ get_cached_explanation(explanations, last.topic, last.level, FALSE) = last.previous
           /\ last.reply_text[1] \notin {row.explanation : row \in explanations}
    /\ (last.op = "explain" /\ last.response.ai_detected_invalid) => ReplyRejected
    /\ \A row \in explanations : response_is_valid(row.explanation)

\* a rejected text for a key that holds an accepted one
C8_Witness ==
    /\ ReplyRejected
    /\ last.response.ai_detected_invalid
    /\ last.previous # <<>>
    /\ StoredUnder(explanations, last.topic, last.level) = {last.previous[1]}

\* the level of the request is none of valid_levels, or
\* validate_educational_concept rejects its topic
LevelOrTopicInvalid(topic, level) ==
    \/ lowered(level) \notin valid_levels
    \/ ~validated(topic).is_valid

\* C9: a request with a level that is none of eli5, student, graduate and
\* advanced in any spelling of upper and lower case, or with a topic that
\* validate_educational_concept rejects, ends with an error response, of
\* status 400 when an API key is configured, with an error message and without
\* an explanation; the handler reads no cache, calls no provider and writes
\* nothing, and no such request ever waits for the provider.
C9_RejectedBeforeCacheAndProvider ==
    /\ (last.op = "explain" /\ LevelOrTopicInvalid(last.topic, last.level)) =>
           /\ last.response.status = IF ProviderConfigured THEN 400 ELSE 500
           /\ last.response.error # "none"
           /\ ~last.response.has_explanation
           /\ ~last.cache_read
           /\ ~last.cache_write
           /\ last.provider_call = "none"
           /\ last.reply_text = <<>>
    /\ \A request \in BagToSet(in_flight) : ~LevelOrTopicInvalid(request.topic, request.level)
    /\ \A row \in explanations : row.level \in valid_levels

\* a request with a level outside the list and a topic that passes, rejected
\* while the table holds a row for that topic
C9_Witness ==
    /\ last.op = "explain"
    /\ lowered(last.level) \notin valid_levels
    /\ last.level # <<>>
    /\ validated(last.topic).is_valid
    /\ last.response.status = 400
    /\ \E row \in explanations : row.topic = normalized(last.topic)

\* (topic, level) of the request of record is the key of row
KeyOf(record, row) ==
    /\ row.topic = normalized(record.topic)
    /\ row.level = lowered(record.level)

\* the step is a delete_topic for the key of row that removes the key's rows
RemovedByDelete(row) ==
    /\ last'.op = "delete"
    /\ last'.deleted
    /\ KeyOf(last', row)
    /\ rows_where(explanations', row.topic, row.level) = {}

\* the step is the end of an explain_concept for the key of row that got an
\* accepted text from the provider and stored it in the place of row
ReplacedByExplain(row) ==
    /\ last'.op = "explain"
    /\ KeyOf(last', row)
    /\ last'.provider_call \in {"google", "openrouter"}
    /\ last'.response.status = 200
    /\ last'.reply_text = <<last'.response.explanation>>
    /\ response_is_valid(last'.response.explanation)
    /\ last'.cache_write /\ ~last'.write_failed
    /\ {r.explanation : r \in rows_where(explanations', row.topic, row.level)}
           = {last'.response.explanation}

\* C10 as stated: a row leaves the table, or gets another explanation, only in
\* a delete_topic for its key, or at the end of an explain_concept for its key
\* with force_refresh and an accepted text.
C10_ReplacedOnlyByForceRefresh ==
    [][ \A row \in explanations :
            row \notin explanations' =>
                \/ RemovedByDelete(row)
                \/ ReplacedByExplain(row) /\ last'.force_refresh ]_vars

\* C10 amended: a row leaves the table, or gets another explanation, only in a
\* delete_topic for its key, or at the end of an explain_concept for its key
\* that got an accepted text from the provider and saved it: one with
\* force_refresh, or one without that went to the provider after its cache
\* lookup (which came before the row was written, or raised). Every other step
\* leaves every row as it is.
C10_ReplacedOnlyByProviderAnswer ==
    [][ \A row \in explanations :
            row \notin explanations' =>
                \/ RemovedByDelete(row)
                \/ ReplacedByExplain(row) /\ (last'.force_refresh \/ last'.cache_read) ]_vars

\* a request without force_refresh has put another explanation in the place
\* of the one its key held
C10_Witness ==
    /\ AnsweredFresh /\ ~last.force_refresh
    /\ last.cache_read /\ last.cache_write
    /\ last.previous # <<>>
    /\ last.previous # <<last.response.explanation>>
    /\ StoredUnder(explanations, last.topic, last.level) = {last.response.explanation}

\* the step is the end of an explain_concept that waited for the provider
ProviderReplied ==
    /\ last'.op = "explain"
    /\ BagCardinality(in_flight') < BagCardinality(in_flight)

\* C11: requests that missed the cache on one key at the same time each call
\* the provider, and each of them, when it ends, leaves the table with one row
\* at most per key: one whose text was accepted and saved leaves under its key
\* exactly the row with its text, put in the place of whatever another of them
\* stored there before, and the rows of every other key as they were; one
\* whose provider call failed, whose text was rejected or whose save raised
\* leaves the table as it was.
C11_ConcurrentMissesOneEntry ==
    [][ ProviderReplied =>
            LET topic == normalized(last'.topic)
                level == lowered(last'.level)
            IN  /\ last'.provider_call \in {"google", "openrouter"}
                /\ \A r1, r2 \in explanations' :
                       (r1.topic = r2.topic /\ r1.level = r2.level) => r1 = r2
                /\ IF last'.cache_write /\ ~last'.write_failed
                     THEN /\ response_is_valid(last'.response.explanation)
                          /\ last'.reply_text = <<last'.response.explanation>>
                          /\ explanations' =
                                 (explanations \ rows_where(explanations, topic, level))
                                 \cup {Row(topic, level, last'.response.explanation, now)}
                     ELSE explanations' = explanations ]_vars

\* two requests found no row under one key, the reads not failing; the second
\* to end has put its text in the place of the first's, no request waits, and
\* the row of another key is there as before
C11_Witness ==
    /\ AnsweredFresh /\ ~last.force_refresh
    /\ last.cache_read /\ ~last.read_failed
    /\ last.previous \notin {<<>>, <<last.response.explanation>>}
    /\ in_flight = EmptyBag
    /\ StoredUnder(explanations, last.topic, last.level) = {last.response.explanation}
    /\ \E row \in explanations : row.topic # normalized(last.topic)

\* the provider returned a text to the handler that completed last, and
\* validate_ai_response accepts it
ReplyAccepted ==
    /\ last.op = "explain"
    /\ last.reply_text # <<>>
    /\ response_is_valid(last.reply_text[1])

\* C12: a request that passes the checks and whose cache read raises goes on
\* to the provider as after a miss, whatever the table holds; a request whose
\* save raises leaves under its key what was there. Every request whose
\* provider text is accepted, those two among them, ends with status 200, the
\* text as explanation and cached = false, without an error.
C12_StoreFailuresNotFatal ==
    /\ \A data \in ExplainRequests :
           (explain_concept_check(data) = NoResponse /\ ~data.force_refresh)
           => LET step == explain_concept_lookup(data, TRUE)
              IN  ~step.finished /\ step.cache_read
    /\ \A request \in BagToSet(in_flight) : request.read_failed => request.cache_read
    /\ (last.op = "explain" /\ last.read_failed) =>
           /\ last.cache_read
           /\ last.provider_call \in {"google", "openrouter"}
    /\ (last.op = "explain" /\ last.write_failed) =>
           /\ last.cache_write
           /\ get_cached_explanation(explanations, last.topic, last.level, FALSE) = last.previous
    /\ ReplyAccepted =>
           /\ last.response.status = 200
           /\ last.response.error = "none"
           /\ last.response.has_explanation
           /\ last.response.explanation = last.reply_text[1]
           /\ ~last.response.cached
           /\ last.cache_write

\* a request whose read raised while its key held a text, and whose save
\* raised as well, answered with the provider's text
C12_Witness ==
    /\ ReplyAccepted
    /\ last.read_failed /\ last.write_failed
    /\ last.response.status = 200
    /\ last.previous \notin {<<>>, <<last.response.explanation>>}
    /\ StoredUnder(explanations, last.topic, last.level) = {last.previous[1]}

\* the backend get_ai_explanation calls under the keys of the environment
ConfiguredBackend ==
    IF GOOGLE_API_KEY THEN "google" ELSE IF OPENROUTER_API_KEY THEN "openrouter" ELSE "none"

\* the error of the configured backend for a request that could not be sent or
\* got no reply
RequestFailed == IF GOOGLE_API_KEY THEN "Google API request failed" ELSE "API request failed"

\* C14: the backend is the one the keys of the environment select, Google
\* when GOOGLE_API_KEY is set, else OpenRouter: get_ai_explanation calls that
\* backend for every reply, a failed call included, and so does every request
\* that comes to the provider, once; a request whose call fails ends with
\* status 500 and the error of that backend, also when the other key is set,
\* and nothing is saved. With no key get_ai_explanation calls no backend and
\* returns the error "No API key configured", and every /explain request ends
\* with status 500 and an error about the missing keys.
C14_BackendFixed ==
    /\ \A reply \in Replies :
           LET result == get_ai_explanation(reply)
           IN  /\ result.backend = ConfiguredBackend
               /\ reply.kind # "ok" => (result.error # "none" /\ result.explanation = <<>>)
               /\ ~ProviderConfigured => result.error = "No API key configured"
    /\ \A request \in BagToSet(in_flight) : ProviderConfigured
    /\ last.op = "explain" =>
           /\ last.provider_call \in {"none", ConfiguredBackend}
           /\ last.response.api_used
                  \in {"none", "Cached", IF GOOGLE_API_KEY THEN "Google AI Studio" ELSE "OpenRouter"}
           /\ (last.provider_call # "none" /\ last.reply_text = <<>>) =>
                  /\ last.response.status = 500
                  /\ last.response.error = RequestFailed
                  /\ ~last.response.has_explanation
                  /\ ~last.cache_write
           /\ ~ProviderConfigured =>
                  /\ last.response.status = 500
                  /\ last.response.error = "No API keys configured on server"
                  /\ last.provider_call = "none"

\* both keys set, the call to Google failed, and the request ended with the
\* error of Google
C14_Witness ==
    /\ GOOGLE_API_KEY /\ OPENROUTER_API_KEY
    /\ last.op = "explain"
    /\ last.provider_call = "google"
    /\ last.response.status = 500
    /\ last.response.error = "Google API request failed"

\* the step is a delete_topic
Deleted == last'.op = "delete" /\ last' # last

\* C17 as stated, the part on the output: the response of a delete_topic that
\* came to the DELETE has, besides the message and the deleted flag, a field
\* for the count of the rows removed.
C17_ResponseReportsCount ==
    [][ (Deleted /\ last'.response.status \in {200, 404}) =>
            last'.body \ {"message", "deleted"} # {} ]_vars

\* C17 amended: a delete_topic for (topic, level) that finds a row under
\* (normalize_topic(topic), level.lower()) removes that one row and no other,
\* get_cached_explanation for the key returns nothing afterwards, and the
\* response has status 200 and deleted = true; one that finds no row leaves the
\* table as it is and responds with status 404 and deleted = false, with a
\* message and without an error; one that is rejected or whose statement
\* raises leaves the table as it is and responds with an error. The body of
\* the first two has the keys message and deleted and no count of rows.
C17_DeleteExactlyTheKey ==
    [][ Deleted =>
            LET found == rows_where(explanations, normalized(last'.topic), lowered(last'.level))
            IN  CASE last'.response.status = 200 ->
                         /\ Cardinality(found) = 1
                         /\ last'.deleted_count = 1
                         /\ explanations' = explanations \ found
                         /\ get_cached_explanation(explanations', last'.topic, last'.level, FALSE)
                                = <<>>
                         /\ last'.deleted
                         /\ last'.response.error = "none"
                         /\ last'.body = {"message", "deleted"}
                  [] last'.response.status = 404 ->
                         /\ found = {}
                         /\ explanations' = explanations
                         /\ ~last'.deleted
                         /\ last'.response.error = "none"
                         /\ last'.body = {"message", "deleted"}
                  [] OTHER ->
                         /\ last'.response.status \in {400, 500}
                         /\ explanations' = explanations
                         /\ ~last'.deleted
                         /\ last'.response.error # "none"
                         /\ last'.body = {"error"} ]_vars

\* a delete in another wording than that of the key has removed the key's row
\* and left the row of another key
C17_Witness ==
    /\ last.op = "delete"
    /\ last.deleted /\ last.response.status = 200
    /\ normalized(last.topic) # last.topic /\ lowered(last.level) # last.level
    /\ get_cached_explanation(explanations, last.topic, last.level, FALSE) = <<>>
    /\ explanations # {}

\* C24: a request with force_refresh whose provider call fails (status 500)
\* or whose text validate_ai_response rejects (status 400) leaves the table
\* as it was; when its key had a row before, the explanation of that row is
\* still what is stored under the key, and the same request without
\* force_refresh is answered from the cache with it.
C24_FailedRefreshKeepsEntry ==
    [][ (ProviderReplied /\ last'.force_refresh /\ last'.response.status # 200) =>
            /\ last'.response.status \in {400, 500}
            /\ last'.response.status = 400 <=> ReplyRejected'
            /\ explanations' = explanations
            /\ last'.previous # <<>> =>
                   /\ StoredUnder(explanations', last'.topic, last'.level)
                          = {last'.previous[1]}
                   /\ AgainServedFromCache(last.previous[1])' ]_vars

\* a refresh of a stored key was rejected by validate_ai_response, and the
\* stored explanation is still served
C24_Witness ==
    /\ last.op = "explain"
    /\ last.force_refresh
    /\ ReplyRejected
    /\ last.response.status = 400
    /\ last.previous # <<>>
    /\ StoredUnder(explanations, last.topic, last.level) = {last.previous[1]}
    /\ AgainServedFromCache(last.previous[1])

\* C23: every row of the table is found under its own stored topic and level:
\* normalize_topic of the stored topic is the stored topic, the stored level is
\* in lower case, get_cached_explanation with the stored topic and level
\* returns the row's explanation, and delete_topic with them removes the row.
C23_StoredKeyAddressable ==
    \A row \in explanations :
        /\ normalize_topic(row.topic) = row.topic
        /\ lower(row.level) = row.level
        /\ get_cached_explanation(explanations, row.topic, row.level, FALSE)
               = <<row.explanation>>
        /\ row \notin delete_topic(Data(row.topic, row.level, FALSE), FALSE).table

----------------------------------------------------------------------------
(* The service under requests whose topic is nothing but a prefix *)

NextPrefixOnly ==
    \/ \E data \in PrefixOnlyRequests, db_error \in BOOLEAN : Explain(data, db_error)
    \/ \E request \in BagToSet(in_flight), reply \in Replies, db_error \in BOOLEAN :
           ProviderReply(request, reply, db_error)
    \/ \E data \in PrefixOnlyDeletes, db_error \in BOOLEAN : Delete(data, db_error)

SpecPrefixOnly == Init /\ [][NextPrefixOnly]_vars

\* C13: no row of the table has the empty string as its topic.
C13_TopicKeyNonEmpty == \A row \in explanations : row.topic # <<>>

----------------------------------------------------------------------------
(* The service started over the database file an earlier run has left, with
   or without API keys (init_db creates the table only if it does not exist) *)

\* rows an earlier run with an API key has saved
EarlierRows == {Row(normalize_topic(MachineLearning), lower(Student), TextA, 0)}

RestartRequests ==
    {Data(MachineLearning, Student, FALSE), Data(MachineLearning, Student, TRUE),
     Data(ExplainMachineLearning, STUDENT, FALSE), Data(John, Student, FALSE)}

RestartDeletes == {Data(MachineLearning, Student, FALSE)}

InitRestart ==
    /\ GOOGLE_API_KEY \in BOOLEAN
    /\ OPENROUTER_API_KEY \in BOOLEAN
    /\ explanations \in SUBSET EarlierRows
    /\ now = 0
    /\ in_flight = EmptyBag
    /\ last = NoRequest
    /\ probe = NoProbe

NextRestart ==
    \/ \E data \in RestartRequests, db_error \in BOOLEAN : Explain(data, db_error)
    \/ \E request \in BagToSet(in_flight), reply \in Replies, db_error \in BOOLEAN :
           ProviderReply(request, reply, db_error)
    \/ \E data \in RestartDeletes, db_error \in BOOLEAN : Delete(data, db_error)

SpecRestart == InitRestart /\ [][NextRestart]_vars

\* the last handler was explain_concept for a request with a topic and a
\* valid level
WellFormedExplain ==
    /\ last.op = "explain"
    /\ last.topic # <<>>
    /\ lowered(last.level) \in valid_levels

\* C21: with no API key configured, a request whose topic the validator
\* rejects is answered 400 with the validator's message, and a request
\* without force_refresh whose key has a row, read without failure, is
\* answered from the cache.
C21_KeysCheckedAtProviderCall ==
    (WellFormedExplain /\ ~ProviderConfigured) =>
        /\ ~validated(last.topic).is_valid =>
               last.response = ErrorResponse(400, validated(last.topic).error)
        /\ ( /\ validated(last.topic).is_valid
             /\ ~last.force_refresh
             /\ ~last.read_failed
             /\ StoredUnder(explanations, last.topic, last.level) # {} )
           => /\ last.response.status = 200
              /\ last.response.cached

----------------------------------------------------------------------------
(* normalize_topic applied to a string, and again to its result *)

\* the pieces the inputs are concatenated from: prefixes of the list (one of
\* them, "how does", begins with a later one, "how do"), a space, a
\* punctuation mark, an upper-case and a lower-case letter
Pieces ==
    { <<"e","x","p","l","a","i","n">>,
      <<"t","e","l","l"," ","m","e">>,
      <<"h","o","w"," ","d","o","e","s">>,
      <<"w","h","a","t"," ","i","s">>,
      <<" ">>, <<"!">>, <<"G">>, <<"x">> }

RECURSIVE Concatenations(_)
Concatenations(n) ==
    IF n = 0 THEN {<<>>}
    ELSE LET shorter == Concatenations(n - 1)
         IN  shorter \cup {s \o p : s \in shorter, p \in Pieces}

ExplainWhatIsGravity == <<"e","x","p","l","a","i","n"," ","w","h","a","t"," ","i","s"," ","g","r","a","v","i","t","y">>
WhatIsGravity == <<"w","h","a","t"," ","i","s"," ","g","r","a","v","i","t","y">>
Gravity == <<"g","r","a","v","i","t","y">>
ExplainEntropy == <<"e","x","p","l","a","i","n"," ","e","n","t","r","o","p","y">>

NormalizeInputs ==
    Concatenations(MaxPieces)
    \cup {ExplainWhatIsGravity, WhatIsGravity, TellMeExplainEntropy,
          MachineLearning, ExplainMachineLearning}

ServiceIdle ==
    /\ GOOGLE_API_KEY = FALSE
    /\ OPENROUTER_API_KEY = FALSE
    /\ explanations = {}
    /\ now = 0
    /\ in_flight = EmptyBag
    /\ last = NoRequest

InitNormalize ==
    /\ ServiceIdle
    /\ probe \in {[fn |-> "normalize_topic", arg |-> x, out |-> <<>>] : x \in NormalizeInputs}

\* out[1] = normalize_topic(arg), out[2] = normalize_topic(out[1])
ApplyNormalize ==
    /\ Len(probe.out) < 2
    /\ probe' = [probe EXCEPT !.out =
                    Append(@, normalize_topic(IF @ = <<>> THEN probe.arg ELSE @[Len(@)]))]
    /\ UNCHANGED service_vars

NextNormalize == ApplyNormalize

SpecNormalize == InitNormalize /\ [][NextNormalize]_vars

Normalized(n) == probe.fn = "normalize_topic" /\ Len(probe.out) >= n

\* s begins with an entry of prefixes_to_remove
BeginsWithPrefix(s) == \E i \in DOMAIN prefixes_to_remove : startswith(s, prefixes_to_remove[i])

\* C3 as stated: normalize_topic(normalize_topic(x)) = normalize_topic(x) for
\* every string x.
C3_Idempotent == Normalized(2) => probe.out[2] = probe.out[1]

\* C3 amended: normalize_topic(normalize_topic(x)) = normalize_topic(x) exactly
\* for the x whose normalize_topic(x) does not begin with a prefix of the list;
\* when it does, the second application cuts that prefix off as well.
C3_IdempotentUnlessPrefixLeft ==
    Normalized(2) => (probe.out[2] = probe.out[1] <=> ~BeginsWithPrefix(probe.out[1]))

\* an input that normalization changes, to a result that normalizing again keeps
C3_Witness ==
    /\ Normalized(2)
    /\ probe.out[1] # probe.arg
    /\ probe.out[1] # <<>>
    /\ probe.out[2] = probe.out[1]

\* C4 as stated: normalize_topic("explain what is gravity") equals
\* normalize_topic("what is gravity").
C4_EqualsWhatIsGravity ==
    (Normalized(1) /\ probe.arg = ExplainWhatIsGravity)
        => probe.out[1] = normalize_topic(WhatIsGravity)

\* C4 amended: normalize_topic("explain what is gravity") is "what is gravity",
\* only "explain" being cut off, while normalize_topic("what is gravity") is
\* "gravity".
C4_OnlyExplainRemoved ==
    /\ (Normalized(1) /\ probe.arg = ExplainWhatIsGravity) => probe.out[1] = WhatIsGravity
    /\ (Normalized(1) /\ probe.arg = WhatIsGravity) => probe.out[1] = Gravity
    /\ (Normalized(2) /\ probe.arg = ExplainWhatIsGravity) => probe.out[2] = Gravity

C4_Witness == Normalized(2) /\ probe.arg = ExplainWhatIsGravity /\ probe.out[1] = WhatIsGravity

\* C5: of the prefixes the lower-cased, stripped, punctuation-free input begins
\* with, normalize_topic cuts off the one that comes first in the list, once,
\* and nothing more than surrounding and repeated white space after that; with
\* no such prefix only the white space is normalized. "tell me explain entropy"
\* becomes "explain entropy".
C5_FirstPrefixOnly ==
    Normalized(1) =>
        LET s == re_sub_nonword(strip(lower(probe.arg)))
            matching == {i \in DOMAIN prefixes_to_remove : startswith(s, prefixes_to_remove[i])}
            first == CHOOSE i \in matching : \A j \in matching : i <= j
            rest == IF matching = {} THEN s
                    ELSE SubSeq(s, Len(prefixes_to_remove[first]) + 1, Len(s))
        IN  /\ probe.out[1] = join(split(rest))
            /\ probe.arg = TellMeExplainEntropy => probe.out[1] = ExplainEntropy

\* an input that begins with two prefixes of the list, the later one cut off
C5_Witness ==
    /\ Normalized(1)
    /\ startswith(probe.arg, <<"h","o","w"," ","d","o","e","s">>)
    /\ probe.out[1] = <<"x">>

----------------------------------------------------------------------------
(* The store by itself: save_explanation, get_cached_explanation and the     *)
(* DELETE of delete_topic on one table, with the database clock running      *)

\* the (topic, level) arguments: one key in two wordings and spellings, another
\* topic, another level
StorePairs ==
    { <<MachineLearning, Student>>, <<ExplainMachineLearning, STUDENT>>,
      <<TellMeExplainEntropy, Student>>, <<MachineLearning, Expert>> }

StoreTexts == {TextA, TextB}

\* probe after a statement on the table: the statement, its arguments, the
\* clock it ran at, whether it raised, and the table as it was before
StoreProbe(fn, topic, level, explanation, db_error) ==
    [fn |-> fn, topic |-> topic, level |-> level, explanation |-> explanation,
     timestamp |-> now, db_error |-> db_error, before |-> explanations]

InitStore ==
    /\ ServiceIdle
    /\ probe = [fn |-> "none", topic |-> <<>>, level |-> <<>>, explanation |-> <<>>,
                timestamp |-> 0, db_error |-> FALSE, before |-> {}]

\* save_explanation(topic, level, explanation)
Put(topic, level, explanation, db_error) ==
    /\ explanations' = save_explanation(explanations, topic, level, explanation, now, db_error)
    /\ probe' = StoreProbe("save_explanation", topic, level, explanation, db_error)
    /\ UNCHANGED <<GOOGLE_API_KEY, OPENROUTER_API_KEY, now, in_flight, last>>

\* the DELETE of delete_topic for (topic, level)
Remove(topic, level, db_error) ==
    /\ explanations' = delete_topic(Data(topic, level, FALSE), db_error).table
    /\ probe' = StoreProbe("delete_topic", topic, level, <<>>, db_error)
    /\ UNCHANGED <<GOOGLE_API_KEY, OPENROUTER_API_KEY, now, in_flight, last>>

\* CURRENT_TIMESTAMP moves on
Tick ==
    /\ now < MaxTime
    /\ now' = now + 1
    /\ UNCHANGED <<GOOGLE_API_KEY, OPENROUTER_API_KEY, explanations, in_flight, last, probe>>

NextStore ==
    \/ \E pair \in StorePairs, explanation \in StoreTexts, db_error \in BOOLEAN :
           Put(pair[1], pair[2], explanation, db_error)
    \/ \E pair \in StorePairs, db_error \in BOOLEAN : Remove(pair[1], pair[2], db_error)
    \/ Tick

SpecStore == InitStore /\ [][NextStore]_vars

\* the statement run last on the table was a save_explanation that did not raise
AfterPut == probe.fn = "save_explanation" /\ ~probe.db_error

\* (topic, level) addresses the key the last save_explanation wrote
SameKey(topic, level) ==
    /\ normalize_topic(topic) = normalize_topic(probe.topic)
    /\ lower(level) = lower(probe.level)

\* C6: after save_explanation(t, l, e), with no save or delete since,
\* get_cached_explanation(t', l') returns e for every (t', l') whose normalized
\* topic and lower-cased level equal those of (t, l), (t, l) itself among them,
\* and returns for every other pair what it returned before the save: nothing
\* where nothing was stored.
C6_RoundTrip ==
    AfterPut =>
        /\ get_cached_explanation(explanations, probe.topic, probe.level, FALSE)
               = <<probe.explanation>>
        /\ \A pair \in StorePairs :
               get_cached_explanation(explanations, pair[1], pair[2], FALSE)
                   = IF SameKey(pair[1], pair[2]) THEN <<probe.explanation>>
                     ELSE get_cached_explanation(probe.before, pair[1], pair[2], FALSE)

\* a save read back under another wording of the topic and another spelling of
\* the level, while another key is absent and a third keeps its explanation
C6_Witness ==
    /\ AfterPut
    /\ probe.topic = ExplainMachineLearning /\ probe.level = STUDENT
    /\ get_cached_explanation(explanations, MachineLearning, Student, FALSE)
           = <<probe.explanation>>
    /\ get_cached_explanation(explanations, MachineLearning, Expert, FALSE) = <<>>
    /\ get_cached_explanation(explanations, TellMeExplainEntropy, Student, FALSE)
           \notin {<<>>, <<probe.explanation>>}

\* C7: the table never holds two rows with one (topic, level), and the topics
\* and levels of its rows are normalized and lower-cased ones; after a
\* save_explanation the key it wrote has exactly one row, with the explanation
\* and the timestamp of that save, so that an explanation saved under the key
\* before is not in the table any more.
C7_OneRowPerKey ==
    /\ \A r1, r2 \in explanations :
           (r1.topic = r2.topic /\ r1.level = r2.level) => r1 = r2
    /\ \A row \in explanations :
           \E pair \in StorePairs :
               row.topic = normalize_topic(pair[1]) /\ row.level = lower(pair[2])
    /\ AfterPut =>
           {row \in explanations : SameKey(row.topic, row.level)
                                   \/ (row.topic = normalize_topic(probe.topic)
                                       /\ row.level = lower(probe.level))}
               = {Row(normalize_topic(probe.topic), lower(probe.level),
                      probe.explanation, probe.timestamp)}

\* a second save for a key, in another wording, with another explanation and at
\* a later time than the first
C7_Witness ==
    /\ AfterPut
    /\ \E old \in probe.before :
           /\ old.topic = normalize_topic(probe.topic) /\ old.level = lower(probe.level)
           /\ old.explanation # probe.explanation
           /\ old.timestamp < probe.timestamp
           /\ old \notin explanations
    /\ Cardinality(explanations) = Cardinality(probe.before)

----------------------------------------------------------------------------
(* The provider by itself: get_ai_explanation for one call of a backend *)

ProviderLevels == {Eli5, Student, Graduate, Advanced, GRADUATE}

FailureKinds == {"transport", "http_status", "no_candidates", "no_parts", "no_text", "unexpected"}

FailedReply(kind) == [kind |-> kind, text |-> <<>>, truncated |-> FALSE]

ProviderReplies ==
    {FailedReply(kind) : kind \in FailureKinds}
    \cup {[kind |-> "ok", text |-> x, truncated |-> b] : x \in {TextA, TextName}, b \in BOOLEAN}

InitProvider ==
    /\ GOOGLE_API_KEY \in BOOLEAN
    /\ OPENROUTER_API_KEY \in BOOLEAN
    /\ explanations = {}
    /\ now = 0
    /\ in_flight = EmptyBag
    /\ last = NoRequest
    /\ probe \in {[fn |-> "get_ai_explanation", level |-> level, reply |-> reply,
                   elapsed |-> elapsed, timeout |-> 0, out |-> <<>>] :
                      level \in ProviderLevels, reply \in ProviderReplies,
                      elapsed \in 0..MaxElapsed}

\* out[1] = get_ai_explanation(topic, level) for a backend that comes to
\* reply after elapsed seconds
ApplyProvider ==
    /\ probe.out = <<>>
    /\ probe' = [probe EXCEPT
                    !.timeout = timeout_duration(probe.level),
                    !.out = <<get_ai_explanation(
                                  requests_post(probe.level, probe.reply, probe.elapsed))>>]
    /\ UNCHANGED service_vars

NextProvider == ApplyProvider

SpecProvider == InitProvider /\ [][NextProvider]_vars

Provided == probe.fn = "get_ai_explanation" /\ probe.out # <<>>

\* the error get_ai_explanation returns for a failure of a kind
ErrorOf(kind) == get_ai_explanation(FailedReply(kind)).error

\* what the call of the backend came to, the timeout taken into account
Outcome == requests_post(probe.level, probe.reply, probe.elapsed)

\* C15 as stated: a failure of the transport, an HTTP status that is no
\* success and a response of another shape than expected get three errors
\* that differ from each other.
C15_ThreeDistinctClasses ==
    (Provided /\ ProviderConfigured) =>
        /\ ErrorOf("transport") # ErrorOf("http_status")
        /\ \A kind \in {"no_candidates", "no_parts", "no_text", "unexpected"} :
               ErrorOf(kind) \notin {ErrorOf("transport"), ErrorOf("http_status")}

\* C15 amended: a failure of the transport (a timeout among them) and an HTTP
\* status that is no success get one and the same error, that of a failed
\* request; a response of another shape than expected gets an error other than
\* that one, and an exception of any other kind a third one. Every failure is
\* returned as an error with no explanation, every text as an explanation with
\* no error.
C15_RequestFailuresShareOneClass ==
    (Provided /\ ProviderConfigured) =>
        /\ ErrorOf("transport") = RequestFailed
        /\ ErrorOf("http_status") = RequestFailed
        /\ \A kind \in {"no_candidates", "no_parts", "no_text"} :
               ErrorOf(kind) \notin {"none", RequestFailed, ErrorOf("unexpected")}
        /\ ErrorOf("unexpected") \notin {"none", RequestFailed}
        /\ IF Outcome.kind = "ok"
             THEN /\ probe.out[1].error = "none"
                  /\ probe.out[1].explanation = provider_text(probe.reply)
             ELSE /\ probe.out[1].error = ErrorOf(Outcome.kind)
                  /\ probe.out[1].error # "none"
                  /\ probe.out[1].explanation = <<>>

\* an HTTP status that is no success, in time, returned as a failed request
C15_Witness ==
    /\ Provided /\ ProviderConfigured
    /\ probe.reply.kind = "http_status"
    /\ probe.elapsed <= probe.timeout
    /\ probe.out[1].error = RequestFailed
    /\ probe.out[1].explanation = <<>>

DeepLevels == {Graduate, Advanced}

ShallowLevels == {Eli5, Student}

\* C16 as stated: the timeout of a call for graduate or advanced is shorter
\* than that of a call for eli5 or student.
C16_ShorterForDeepLevels ==
    Provided =>
        /\ \A deep \in DeepLevels, shallow \in ShallowLevels :
               timeout_duration(deep) < timeout_duration(shallow)
        /\ lower(probe.level) \in DeepLevels =>
               \A shallow \in ShallowLevels : probe.timeout < timeout_duration(shallow)

\* C16 amended: the timeout of a call is 12 seconds for graduate and advanced,
\* in any spelling of upper and lower case, and 10 seconds for eli5 and
\* student: longer for the two deepest levels. A reply that comes within the
\* timeout is handled, one that takes longer is a failed request.
C16_LongerForDeepLevels ==
    Provided =>
        /\ \A deep \in DeepLevels, shallow \in ShallowLevels :
               timeout_duration(deep) > timeout_duration(shallow)
        /\ probe.timeout = IF lower(probe.level) \in DeepLevels THEN 12 ELSE 10
        /\ (ProviderConfigured /\ probe.elapsed > probe.timeout) =>
               probe.out[1].error = RequestFailed
        /\ (ProviderConfigured /\ probe.elapsed <= probe.timeout /\ probe.reply.kind = "ok") =>
               probe.out[1].error = "none"

\* a reply after 11 seconds, in time for graduate
C16_Witness ==
    /\ Provided /\ ProviderConfigured
    /\ lower(probe.level) = Graduate /\ probe.level # Graduate
    /\ probe.elapsed = 11
    /\ probe.timeout = 12
    /\ probe.reply.kind = "ok"
    /\ probe.out[1].error = "none"

----------------------------------------------------------------------------
(* The two validators as functions (app.py:94-238, 298-352), applied to
   topics around the length limits of 2 and 200, to names and phrases, and to
   provider texts around the length of 100 *)

Repeat(c, n) == [i \in 1..n |-> c]

\* s followed by full stops up to length n
OfLength(s, n) == s \o Repeat(".", n - Len(s))

Surrounds == {<<>>, <<" ">>}

TopicLengths == (0..3) \cup ((MaxTopicLen - 4)..MaxTopicLen)

\* one character repeated, bare or with a space on either side
RepeatedTopics ==
    {before \o Repeat(c, n) \o after :
        c \in {"x", "Q"}, n \in TopicLengths, before \in Surrounds, after \in Surrounds}

\* a first name and a long second word
LongNameTopics ==
    {John \o <<" ">> \o Repeat("x", n) : n \in (MaxTopicLen - 9)..(MaxTopicLen - 5)}

Mary == <<"M","a","r","y">>
Sam == <<"s","a","m">>
Machine == <<"M","a","c","h","i","n","e">>

FirstWords == {John, Mary, Sam, Machine}

RestWords ==
    {<<"s","m","i","t","h">>, <<"l","i">>, <<"L","e","a","r","n","i","n","g">>,
     <<"p","h","y","s","i","c","s">>, <<"l","e","e"," ","j","r">>}

NameTopics ==
    FirstWords
    \cup {first \o gap \o rest :
            first \in FirstWords, gap \in {<<" ">>, <<" ", " ">>}, rest \in RestWords}

\* topics that more than one rule matches, and one topic for each rule
OrderTopics ==
    {<<"l","o","v","e"," ","t","h","e","o","r","y">>,
     <<"h","e","l","l","o"," ","w","o","r","l","d">>,
     <<"e","n","t","e","r","t","a","i","n","m","e","n","t">>,
     <<"s","a","m"," ","t","e","s","t">>,
     <<"T","e","s","t","i","n","g">>,
     <<"T","e","l","l"," ","m","e">>,
     <<"h","i">>,
     <<"w","h","a","t">>,
     <<"b","i","o","l","o","g","y">>,
     <<"a","t","o","m","i","s","m">>,
     <<"p","h","o","t","o","s","y","n","t","h","e","s","i","s">>,
     <<"A","r","t"," ","H","i","s","t","o","r","y">>,
     Gravity}

ValidateInputs == RepeatedTopics \cup LongNameTopics \cup NameTopics \cup OrderTopics

ICannot == <<"I"," ","c","a","n","n","o","t"," ","h","e","l","p"," ","w","i","t","h"," ","t","h","a","t",".">>
ICANNOT == <<"I"," ","C","A","N","N","O","T"," ","p","r","o","v","i","d","e"," ","t","h","i","s",".">>

ResponseLengths == {50} \cup ((MaxResponseLen - 3)..MaxResponseLen)

Trailers == {<<>>, <<"\n">>, <<"\n", "\n">>}

\* a refusal, an indicator of a name, both, or neither, filled up to a length
\* and followed by line ends as providers send them
ResponseInputs ==
    {<<>>, TextA, TextName, ICannot}
    \cup {OfLength(start, n) \o trailer :
            start \in {ICannot, ICANNOT, TextA, TextName, ICannot \o TextName},
            n \in ResponseLengths, trailer \in Trailers}

InitValidate ==
    /\ ServiceIdle
    /\ probe \in
         {[fn |-> "validate_educational_concept", arg |-> x, out |-> <<>>] : x \in ValidateInputs}
         \cup {[fn |-> "validate_ai_response", arg |-> x, out |-> <<>>] : x \in ResponseInputs}

ApplyValidateTopic ==
    /\ probe.fn = "validate_educational_concept"
    /\ probe.out = <<>>
    /\ probe' = [probe EXCEPT !.out = <<validate_educational_concept(probe.arg)>>]
    /\ UNCHANGED service_vars

ApplyValidateResponse ==
    /\ probe.fn = "validate_ai_response"
    /\ probe.out = <<>>
    /\ probe' = [probe EXCEPT !.out = <<validate_ai_response(probe.arg)>>]
    /\ UNCHANGED service_vars

NextValidate == ApplyValidateTopic \/ ApplyValidateResponse

SpecValidate == InitValidate /\ [][NextValidate]_vars

TopicValidated == probe.fn = "validate_educational_concept" /\ probe.out # <<>>

ResponseValidated == probe.fn = "validate_ai_response" /\ probe.out # <<>>

\* the topic as the rules of the validator see it
TopicLower == strip(lower(probe.arg))

TooShortErrors == {"Please enter a topic to explain", "Topic must be at least 2 characters long"}

TooLongError == "Topic must be less than 200 characters"

\* the messages of the rules that reject a topic for what it says
ContentErrors ==
    {"appears to be a person's name", "This looks like a person's name",
     "Please be more specific", "I focus on educational and technical concepts"}

\* C18: a topic whose trimmed length is below 2 is rejected; one whose trimmed
\* length is above 200 is rejected with another message; one of trimmed length
\* 2 to 200 is rejected by neither length rule, and one of exactly 200
\* characters is accepted unless a rule about its content rejects it (a
\* repeated letter is accepted).
C18_LengthBounds ==
    TopicValidated =>
        LET n == Len(strip(probe.arg))
            verdict == probe.out[1]
        IN  /\ n < 2 => ~verdict.is_valid /\ verdict.error \in TooShortErrors
            /\ n > 200 => ~verdict.is_valid /\ verdict.error = TooLongError
            /\ TooLongError \notin TooShortErrors
            /\ (n >= 2 /\ n <= 200) => verdict.error \notin TooShortErrors \cup {TooLongError}
            /\ n = 200 => verdict.is_valid \/ verdict.error \in ContentErrors
            /\ (n = 200 /\ probe.arg \in RepeatedTopics) => verdict.is_valid

\* 200 letters between two spaces, accepted
C18_Witness ==
    /\ TopicValidated
    /\ Len(probe.arg) = 202
    /\ Len(strip(probe.arg)) = 200
    /\ probe.out[1].is_valid

\* C19: a topic equal to a first name of the list is rejected by the rule of
\* single names; a topic of two words, the first a first name of the list, the
\* second longer than 2 characters and no continuation word, is rejected, as a
\* likely personal name unless it is longer than 200 characters; a topic of
\* the allow list ("machine learning") is accepted; a first name followed by
\* a short word or a continuation word, or by two words, is accepted.
C19_NameRules ==
    TopicValidated =>
        LET words == split(TopicLower)
            verdict == probe.out[1]
            likely_name == /\ Len(words) = 2
                           /\ words[1] \in common_first_names
                           /\ Len(words[2]) > 2
                           /\ words[2] \notin topic_continuation_words
        IN  /\ TopicLower \in common_first_names =>
                verdict = [is_valid |-> FALSE, error |-> "appears to be a person's name"]
            /\ likely_name => ~verdict.is_valid
            /\ (likely_name /\ Len(TopicLower) <= 200) =>
                verdict.error = "This looks like a person's name"
            /\ (TopicLower \in educational_concepts \/ probe.arg = MachineLearning) =>
                verdict.is_valid
            /\ (probe.arg \in NameTopics /\ Len(words) > 1 /\ ~likely_name) =>
                verdict.is_valid

\* "Mary  smith", rejected as a likely personal name
C19_Witness ==
    /\ TopicValidated
    /\ split(TopicLower) = <<lower(Mary), <<"s","m","i","t","h">>>>
    /\ probe.arg # lower(probe.arg)
    /\ probe.out[1] = [is_valid |-> FALSE, error |-> "This looks like a person's name"]

HasIndicator(text) ==
    \E k \in DOMAIN invalid_indicators : contains(lower(text), invalid_indicators[k])

HasRefusal(text) ==
    \E k \in DOMAIN refusal_phrases : contains(lower(text), refusal_phrases[k])

\* C20 as stated: the empty text is rejected; a text with an indicator phrase
\* is rejected at any length; a text of fewer than 100 characters with a
\* refusal phrase is rejected; a text of 100 characters or more with a
\* refusal phrase and no indicator phrase is accepted.
C20_LengthOfText ==
    ResponseValidated =>
        LET text == probe.arg
            accepted == probe.out[1]
        IN  /\ text = <<>> => ~accepted
            /\ HasIndicator(text) => ~accepted
            /\ (Len(text) < 100 /\ HasRefusal(text)) => ~accepted
            /\ (Len(text) >= 100 /\ HasRefusal(text) /\ ~HasIndicator(text)) => accepted

\* C20 amended: the length that counts is that of the text without its
\* leading and trailing whitespace. The empty text is rejected; a text with
\* an indicator phrase is rejected at any length; a text whose trimmed length
\* is below 100 and that has a refusal phrase is rejected; every other text
\* is accepted, so one of trimmed length 100 or more with a refusal phrase
\* and no indicator phrase.
C20_LengthOfTrimmedText ==
    ResponseValidated =>
        LET text == probe.arg
            accepted == probe.out[1]
        IN  /\ text = <<>> => ~accepted
            /\ HasIndicator(text) => ~accepted
            /\ (Len(strip(text)) < 100 /\ HasRefusal(text)) => ~accepted
            /\ (Len(strip(text)) >= 100 /\ HasRefusal(text) /\ ~HasIndicator(text)) => accepted
            /\ (text # <<>> /\ ~HasIndicator(text) /\ ~HasRefusal(text)) => accepted

\* a refusal of 99 characters and a line end, 100 characters in all, rejected
C20_Witness ==
    /\ ResponseValidated
    /\ Len(probe.arg) = 100
    /\ Len(strip(probe.arg)) = 99
    /\ HasRefusal(probe.arg) /\ ~HasIndicator(probe.arg)
    /\ ~probe.out[1]

\* whether rule k of the validator, in the order of the code, matches the
\* topic: 1 length bounds, 2 allow list, 3 first name, 4 two words that look
\* like a name, 5 vague word, 6 pattern, 7 keyword, 8 several words, more than
\* 8 characters or a technical suffix, 9 none of these
RuleMatches(k, topic) ==
    LET t == strip(lower(topic))
        words == split(t)
    IN  CASE k = 1 -> topic = <<>> \/ Len(t) < 2 \/ Len(t) > 200
          [] k = 2 -> t \in educational_concepts
          [] k = 3 -> t \in common_first_names
          [] k = 4 -> /\ Len(words) = 2
                      /\ words[1] \in common_first_names
                      /\ words[2] \notin topic_continuation_words
                      /\ Len(words[2]) > 2
          [] k = 5 -> t \in vague_questions
          [] k = 6 -> \E i \in DOMAIN non_educational_patterns :
                          \E alt \in non_educational_patterns[i].alts :
                              IF non_educational_patterns[i].anchored
                              THEN startswith(t, alt) ELSE contains(t, alt)
          [] k = 7 -> \E keyword \in educational_keywords : contains(t, keyword)
          [] k = 8 -> \/ Len(words) > 1
                      \/ Len(t) > 8
                      \/ \E suffix \in technical_suffixes : endswith(t, suffix)
          [] k = 9 -> TRUE

\* the first rule that matches the topic
FirstRule(topic) ==
    CHOOSE k \in 1..9 : RuleMatches(k, topic) /\ \A j \in 1..(k - 1) : ~RuleMatches(j, topic)

AcceptingRules == {2, 7, 8}

\* the messages rule k rejects with
RuleErrors(k) ==
    CASE k = 1 -> TooShortErrors \cup {TooLongError}
      [] k = 3 -> {"appears to be a person's name"}
      [] k = 4 -> {"This looks like a person's name"}
      [] k = 5 -> {"Please be more specific"}
      [] k = 6 -> {"I focus on educational and technical concepts"}
      [] k = 9 -> {"might be too vague"}
      [] OTHER -> {"none"}

\* C22: the verdict on a topic is that of the first rule, in the order length
\* bounds, allow list, first name, two-word name, vague word, pattern,
\* keyword, structure, final reject, that matches it: accepted when that rule
\* is the allow list, the keyword rule or the structural rule, rejected with
\* the message of the rule otherwise. So a topic of the allow list is accepted
\* whatever later rule matches it, and a topic that a pattern matches and no
\* earlier rule does is rejected also when it has a keyword, several words or
\* more than 8 characters.
C22_FirstMatchingRule ==
    TopicValidated =>
        LET k == FirstRule(probe.arg)
            verdict == probe.out[1]
        IN  /\ verdict.is_valid <=> k \in AcceptingRules
            /\ verdict.error \in RuleErrors(k)
            /\ (RuleMatches(2, probe.arg) /\ ~RuleMatches(1, probe.arg)) => verdict.is_valid
            /\ (RuleMatches(6, probe.arg) /\ \A j \in 1..5 : ~RuleMatches(j, probe.arg)) =>
                   verdict = [is_valid |-> FALSE,
                              error |-> "I focus on educational and technical concepts"]

\* "love theory": a pattern, a keyword, two words and more than 8 characters,
\* rejected by the pattern rule
C22_Witness ==
    /\ TopicValidated
    /\ RuleMatches(6, probe.arg) /\ RuleMatches(7, probe.arg)
    /\ Len(split(TopicLower)) > 1 /\ Len(TopicLower) > 8
    /\ ~probe.out[1].is_valid
    /\ probe.out[1].error = "I focus on educational and technical concepts"

=============================================================================
